---- MODULE Spec2Model ----
(***************************************************************************)
(* A model of the encoding pipeline of sjson: the numeric and string       *)
(* rendering primitives, the struct and map encoders, and the pooled       *)
(* encoder stream used by Marshal.                                         *)
(*                                                                         *)
(* Byte strings are sequences of naturals 0..255.  A 64-bit machine word   *)
(* is a tuple of four 16-bit limbs, least significant first, so that the   *)
(* arithmetic keeps its width.                                             *)
(***************************************************************************)
EXTENDS Integers, Sequences, FiniteSets, TLC

\* ------------------------------------------------------------------------
\* Bounds of the model
\* ------------------------------------------------------------------------
MaxStrLen == 3
MaxFields == 3
MaxEntries == 3
NumCalls == 2

\* ------------------------------------------------------------------------
\* Byte constants
\* ------------------------------------------------------------------------
QUOTE == 34
BSLASH == 92
LBRACE == 123
RBRACE == 125
COLON == 58
COMMA == 44
MINUS == 45
RuneSelf == 128

nullString == <<110, 117, 108, 108>>
emptyString == <<34, 34>>
emptyObject == <<123, 125>>
trueString == <<116, 114, 117, 101>>
falseString == <<102, 97, 108, 115, 101>>

\* ------------------------------------------------------------------------
\* 64-bit words: <<l0, l1, l2, l3>>, value l0 + l1*2^16 + l2*2^32 + l3*2^48
\* ------------------------------------------------------------------------
LimbBase == 256 * 256

U64Zero == <<0, 0, 0, 0>>
MaxUint64 == <<65535, 65535, 65535, 65535>>
MaxInt64 == <<65535, 65535, 65535, 32767>>
MinInt64 == <<0, 0, 0, 32768>>

\* the word of a natural below 2^31
U64(n) == <<n % LimbBase, n \div LimbBase, 0, 0>>

\* the natural of a word below 2^31
U64ToNat(u) == u[1] + u[2] * LimbBase

U64FitsNat(u) == u[3] = 0 /\ u[4] = 0 /\ u[2] < 32768

\* unsigned comparison u < v
U64Lt(u, v) ==
    \/ u[4] < v[4]
    \/ u[4] = v[4] /\ u[3] < v[3]
    \/ u[4] = v[4] /\ u[3] = v[3] /\ u[2] < v[2]
    \/ u[4] = v[4] /\ u[3] = v[3] /\ u[2] = v[2] /\ u[1] < v[1]

\* unsigned division of a word by a small natural k: [q |-> word, r |-> nat]
U64DivMod(u, k) ==
    LET c4 == u[4]
        c3 == (c4 % k) * LimbBase + u[3]
        c2 == (c3 % k) * LimbBase + u[2]
        c1 == (c2 % k) * LimbBase + u[1]
    IN [q |-> <<c1 \div k, c2 \div k, c3 \div k, c4 \div k>>, r |-> c1 % k]

\* wrapping addition of a small natural k to a word
U64AddSmall(u, k) ==
    LET s1 == u[1] + k
        s2 == u[2] + s1 \div LimbBase
        s3 == u[3] + s2 \div LimbBase
        s4 == u[4] + s3 \div LimbBase
    IN <<s1 % LimbBase, s2 % LimbBase, s3 % LimbBase, s4 % LimbBase>>

\* wrapping multiplication of a word by a small natural k, with the carry
\* out of the top limb
U64MulSmall(u, k) ==
    LET p1 == u[1] * k
        p2 == u[2] * k + p1 \div LimbBase
        p3 == u[3] * k + p2 \div LimbBase
        p4 == u[4] * k + p3 \div LimbBase
    IN [w |-> <<p1 % LimbBase, p2 % LimbBase, p3 % LimbBase, p4 % LimbBase>>,
        carry |-> p4 \div LimbBase]

\* wrapping two's complement negation, Go's unary minus on int64
I64Neg(i) ==
    U64AddSmall(<<65535 - i[1], 65535 - i[2], 65535 - i[3], 65535 - i[4]>>, 1)

\* sign test of a word read as int64
I64IsNeg(i) == i[4] >= 32768

\* the int64 word of an integer of magnitude below 2^31
I64(n) == IF n >= 0 THEN U64(n) ELSE I64Neg(U64(-n))

\* ------------------------------------------------------------------------
\* Integer rendering
\* ------------------------------------------------------------------------
singleDigits == <<48, 49, 50, 51, 52, 53, 54, 55, 56, 57>>

\* digit characters of strconv: 0-9 then a-z
DigitChar(d) == IF d < 10 THEN 48 + d ELSE 87 + d

\* strconv.AppendInt(nil, n, 10) of a natural n
RECURSIVE FormatNat(_)
FormatNat(n) ==
    IF n < 10 THEN <<48 + n>> ELSE Append(FormatNat(n \div 10), 48 + (n % 10))

\* the table filled by init(): digits[i] for 0 <= i < 10000
digits(i) == FormatNat(i)

\* strconv.AppendUint(dst, u, base)
RECURSIVE FormatBits(_, _)
FormatBits(u, base) ==
    LET qr == U64DivMod(u, base)
    IN IF qr.q = U64Zero THEN <<DigitChar(qr.r)>>
       ELSE Append(FormatBits(qr.q, base), DigitChar(qr.r))

strconvAppendUint(dst, u, base) == dst \o FormatBits(u, base)

\* the digit counting loop of appendUintOptimized
RECURSIVE CountDigits(_)
CountDigits(temp) ==
    IF temp \div 10 = 0 THEN 1 ELSE 1 + CountDigits(temp \div 10)

\* the loop "for u >= 100" of appendUintOptimized: returns dst, u and pos
RECURSIVE OptimizedLoop(_, _, _)
OptimizedLoop(dst, u, pos) ==
    IF u >= 100
    THEN LET q == u \div 100
             r == u % 100
         IN IF r < 10
            THEN OptimizedLoop([dst EXCEPT ![pos] = singleDigits[r + 1]], q, pos - 1)
            ELSE LET twoDigits == digits(r)
                 IN OptimizedLoop([dst EXCEPT ![pos] = twoDigits[2],
                                              ![pos - 1] = twoDigits[1]],
                                  q, pos - 2)
    ELSE [dst |-> dst, u |-> u, pos |-> pos]

\* appendUintOptimized(dst, u): u is a natural in 10000 .. 99999999.
\* Positions are 1-based: Go's dst[pos] is dst[pos + 1] here.
appendUintOptimized(dst, u) ==
    LET digitCount == CountDigits(u)
        start == Len(dst)
        dst1 == dst \o [k \in 1..digitCount |-> 0]
        pos == start + digitCount - 1
        l == OptimizedLoop(dst1, u, pos + 1)
    IN IF l.u >= 10
       THEN LET twoDigits == digits(l.u)
            IN [l.dst EXCEPT ![l.pos] = twoDigits[2], ![l.pos - 1] = twoDigits[1]]
       ELSE [l.dst EXCEPT ![l.pos] = singleDigits[l.u + 1]]

appendUint(dst, u, base) ==
    IF U64Lt(u, U64(10)) THEN Append(dst, singleDigits[U64ToNat(u) + 1])
    ELSE IF U64Lt(u, U64(10000)) THEN dst \o digits(U64ToNat(u))
    ELSE IF U64Lt(u, U64(100000000)) THEN appendUintOptimized(dst, U64ToNat(u))
    ELSE strconvAppendUint(dst, u, base)

\* appendInt taking the magnitude without wrapping: -MinInt64 held at MaxInt64
appendIntClamped(dst, i, base) ==
    IF I64IsNeg(i)
    THEN appendUint(Append(dst, MINUS), IF i = MinInt64 THEN MaxInt64 ELSE I64Neg(i), base)
    ELSE appendUint(dst, i, base)

appendInt(dst, i, base) ==
    IF I64IsNeg(i)
    THEN appendUint(Append(dst, MINUS), I64Neg(i), base)
    ELSE appendUint(dst, i, base)

\* ------------------------------------------------------------------------
\* String escaping
\* ------------------------------------------------------------------------
HexLower(d) == IF d < 10 THEN 48 + d ELSE 87 + d

\* the table unicodeHex: the six bytes \u00XX of a control byte
unicodeHex(c) == <<BSLASH, 117, 48, 48, HexLower(c \div 16), HexLower(c % 16)>>

\* the literal of safeSet: printable ASCII, the quote and the backslash left out
safeSetLiteral ==
    [c \in 0..(RuneSelf - 1) |-> c \in ({32, 33} \cup (35..91) \cup (93..126))]

\* safeSet after init() has cleared the special characters
safeSet ==
    [c \in 0..(RuneSelf - 1) |->
        IF c \in {QUOTE, BSLASH, 9, 10, 13, 8, 12} \cup (0..31)
        THEN FALSE ELSE safeSetLiteral[c]]

\* escapeStringToBytes without the \u00XX branch of the default case
escapeStringToBytesRawControl(buf, c) ==
    CASE c = QUOTE -> buf \o <<BSLASH, QUOTE>>
      [] c = BSLASH -> buf \o <<BSLASH, BSLASH>>
      [] c = 8 -> buf \o <<BSLASH, 98>>
      [] c = 12 -> buf \o <<BSLASH, 102>>
      [] c = 10 -> buf \o <<BSLASH, 110>>
      [] c = 13 -> buf \o <<BSLASH, 114>>
      [] c = 9 -> buf \o <<BSLASH, 116>>
      [] OTHER -> Append(buf, c)

escapeStringToBytes(buf, c) ==
    CASE c = QUOTE -> buf \o <<BSLASH, QUOTE>>
      [] c = BSLASH -> buf \o <<BSLASH, BSLASH>>
      [] c = 8 -> buf \o <<BSLASH, 98>>
      [] c = 12 -> buf \o <<BSLASH, 102>>
      [] c = 10 -> buf \o <<BSLASH, 110>>
      [] c = 13 -> buf \o <<BSLASH, 114>>
      [] c = 9 -> buf \o <<BSLASH, 116>>
      [] OTHER -> IF c < 32 THEN buf \o unicodeHex(c) ELSE Append(buf, c)

IsCont(s, i, lo, hi) == i <= Len(s) /\ s[i] >= lo /\ s[i] <= hi

\* the size returned by utf8.DecodeRune on s[i:], i 1-based and within s:
\* the length of a well-formed encoding, 1 for an invalid or truncated one
DecodeRuneSize(s, i) ==
    LET b == s[i]
        two == IsCont(s, i + 1, 128, 191)
        three(lo, hi) == IsCont(s, i + 1, lo, hi) /\ IsCont(s, i + 2, 128, 191)
        four(lo, hi) == /\ IsCont(s, i + 1, lo, hi) /\ IsCont(s, i + 2, 128, 191)
                        /\ IsCont(s, i + 3, 128, 191)
    IN CASE b < 128 -> 1
         [] b >= 194 /\ b <= 223 -> IF two THEN 2 ELSE 1
         [] b = 224 -> IF three(160, 191) THEN 3 ELSE 1
         [] b = 237 -> IF three(128, 159) THEN 3 ELSE 1
         [] b >= 225 /\ b <= 239 /\ b # 237 -> IF three(128, 191) THEN 3 ELSE 1
         [] b = 240 -> IF four(144, 191) THEN 4 ELSE 1
         [] b >= 241 /\ b <= 243 -> IF four(128, 191) THEN 4 ELSE 1
         [] b = 244 -> IF four(128, 143) THEN 4 ELSE 1
         [] OTHER -> 1

\* The end of the run of safe ASCII bytes that starts at i: the least j >= i
\* where the scan does something other than "i++" (an unsafe or non-ASCII
\* byte), or Len(s) + 1.
SafeRunEnd(s, i) ==
    LET stops == {j \in i..Len(s) : s[j] >= RuneSelf \/ ~safeSet[s[j]]}
    IN IF stops = {} THEN Len(s) + 1
       ELSE CHOOSE j \in stops : \A k \in stops : j <= k

\* the scan loop of stringEncoder.appendToBytes; start and i are 1-based.
\* Returns the buffer and start at loop exit.
RECURSIVE StringScan(_, _, _, _)
StringScan(buf, s, start, i) ==
    LET j == SafeRunEnd(s, i)
    IN IF j > Len(s) THEN [buf |-> buf, start |-> start]
       ELSE IF s[j] < RuneSelf
            THEN LET flushed == IF start < j THEN buf \o SubSeq(s, start, j - 1)
                                ELSE buf
                 IN StringScan(escapeStringToBytes(flushed, s[j]), s, j + 1, j + 1)
            ELSE StringScan(buf, s, start, j + DecodeRuneSize(s, j))

\* stringEncoder.appendToBytes on the text s
stringEncoder_appendToBytes(buffer, s) ==
    IF s = <<>> THEN [buffer |-> buffer \o emptyString, err |-> ""]
    ELSE LET l == StringScan(Append(buffer, QUOTE), s, 1, 1)
             rest == IF l.start <= Len(s) THEN l.buf \o SubSeq(s, l.start, Len(s))
                     ELSE l.buf
         IN [buffer |-> Append(rest, QUOTE), err |-> ""]

\* the loop of byteSliceEncoder.appendToBytes
RECURSIVE ByteScan(_, _, _)
ByteScan(buf, b, i) ==
    IF i > Len(b) THEN buf
    ELSE IF b[i] < RuneSelf
         THEN IF safeSet[b[i]] THEN ByteScan(Append(buf, b[i]), b, i + 1)
              ELSE ByteScan(escapeStringToBytes(buf, b[i]), b, i + 1)
         ELSE LET size == DecodeRuneSize(b, i)
              IN ByteScan(buf \o SubSeq(b, i, i + size - 1), b, i + size)

\* byteSliceEncoder.appendToBytes without the test for a nil slice
byteSliceEncoder_appendToBytesNoNil(buffer, isNil, b) ==
    IF Len(b) = 0 THEN [buffer |-> buffer \o emptyString, err |-> ""]
    ELSE [buffer |-> Append(ByteScan(Append(buffer, QUOTE), b, 1), QUOTE), err |-> ""]

\* byteSliceEncoder.appendToBytes on a byte slice: isNil tells a nil slice
byteSliceEncoder_appendToBytes(buffer, isNil, b) ==
    IF isNil THEN [buffer |-> buffer \o nullString, err |-> ""]
    ELSE IF Len(b) = 0 THEN [buffer |-> buffer \o emptyString, err |-> ""]
    ELSE [buffer |-> Append(ByteScan(Append(buffer, QUOTE), b, 1), QUOTE), err |-> ""]

\* ------------------------------------------------------------------------
\* Values (reflect.Value) and encoders
\*
\* A value is a record with its kind and the fields of that kind:
\*   string  s          int, uint  n (a word)      bool  b
\*   bytes   isNil, b   ptr  isNil, elem           struct  fields
\*   map     isNil, iter: the entries [k, v] in the order MapRange yields them
\* tm tells that the type offers encoding.TextMarshaler; text and fails are
\* then the result of MarshalText.
\* ------------------------------------------------------------------------
StringVal(s) == [kind |-> "string", tm |-> FALSE, s |-> s]
IntVal(n) == [kind |-> "int", tm |-> FALSE, n |-> n]
UintVal(n) == [kind |-> "uint", tm |-> FALSE, n |-> n]
BoolVal(b) == [kind |-> "bool", tm |-> FALSE, b |-> b]
BytesVal(isNil, b) == [kind |-> "bytes", tm |-> FALSE, isNil |-> isNil, b |-> b]
MapVal(isNil, iter) == [kind |-> "map", tm |-> FALSE, isNil |-> isNil, iter |-> iter]
PtrVal(isNil, elem) == [kind |-> "ptr", tm |-> FALSE, isNil |-> isNil, elem |-> elem]
StructVal(fields) == [kind |-> "struct", tm |-> FALSE, fields |-> fields]
\* a slice, for its length only
SliceVal(elems) == [kind |-> "slice", tm |-> FALSE, elems |-> elems]
\* values of kinds no encoder supports: a float map key, a channel
FloatVal(id) == [kind |-> "float64", tm |-> FALSE, id |-> id]
ChanVal == [kind |-> "chan", tm |-> FALSE]
\* a value of a type with MarshalText: a struct, or a pointer that may be nil;
\* id tells two values apart that marshal to the same text
TextVal(kind, id, isNil, text, fails) ==
    [kind |-> kind, tm |-> TRUE, id |-> id, isNil |-> isNil, text |-> text,
     fails |-> fails]

\* encoders: the types that implement Encoder
nullEncoder == [type |-> "null"]
boolEncoder == [type |-> "bool"]
intEncoder == [type |-> "int"]
uintEncoder == [type |-> "uint"]
stringEncoder == [type |-> "string"]
byteSliceEncoder == [type |-> "bytes"]
noSupportEncoder == [type |-> "noSupport"]
mapStringInterfaceEncoder == [type |-> "mapStringInterface"]
mapEncoder(valueEncoder) == [type |-> "map", valueEncoder |-> valueEncoder]
structField(name, index, omitempty, encoder) ==
    [name |-> name, index |-> index, omitempty |-> omitempty, encoder |-> encoder]
structEncoder(fields) ==
    [type |-> "struct", fields |-> fields, numFields |-> Len(fields),
     hasOmitEmpty |-> \E k \in 1..Len(fields) : fields[k].omitempty]

\* the encoder cached for the type of a value
getEncoderFast(v) ==
    CASE v.kind = "string" -> stringEncoder
      [] v.kind = "int" -> intEncoder
      [] v.kind = "uint" -> uintEncoder
      [] v.kind = "bool" -> boolEncoder
      [] v.kind = "bytes" -> byteSliceEncoder
      [] v.kind = "map" -> mapStringInterfaceEncoder
      [] OTHER -> noSupportEncoder

\* the zero value test behind omitempty
isEmptyValue(v) ==
    CASE v.kind = "string" -> v.s = <<>>
      [] v.kind \in {"int", "uint"} -> v.n = U64Zero
      [] v.kind = "bool" -> ~v.b
      [] v.kind = "bytes" -> Len(v.b) = 0
      [] v.kind = "map" -> Len(v.iter) = 0
      [] v.kind = "ptr" -> v.isNil
      [] OTHER -> FALSE

\* bytes.Compare
bytesCompare(a, b) ==
    LET m == IF Len(a) < Len(b) THEN Len(a) ELSE Len(b)
        diff == {k \in 1..m : a[k] # b[k]}
    IN IF diff = {}
       THEN (IF Len(a) < Len(b) THEN -1 ELSE IF Len(a) > Len(b) THEN 1 ELSE 0)
       ELSE LET k == CHOOSE x \in diff : \A y \in diff : x <= y
            IN IF a[k] < b[k] THEN -1 ELSE 1

\* the inner loop of the insertion sort: sink data[j] while it is smaller
RECURSIVE InsertionInner(_, _)
InsertionInner(data, j) ==
    IF j > 1 /\ bytesCompare(data[j].ks, data[j - 1].ks) < 0
    THEN InsertionInner([data EXCEPT ![j] = data[j - 1], ![j - 1] = data[j]], j - 1)
    ELSE data

RECURSIVE InsertionOuter(_, _)
InsertionOuter(data, i) ==
    IF i > Len(data) THEN data ELSE InsertionOuter(InsertionInner(data, i), i + 1)

\* slices.SortFunc(sv, by bytes.Compare of ks) for the maps under study,
\* which have fewer than 13 entries: up to 12 elements the library sorts by
\* insertion, which leaves equal keys in the order they came in.  The
\* pattern-defeating quicksort it uses for longer sequences, which may
\* reorder equal keys, is not modelled.
slicesSortFunc(sv) == InsertionOuter(sv, 2)

\* resolveKeyName giving every key of another kind the empty name
resolveKeyNameLenient(src) ==
    IF src.kind = "string" THEN [ks |-> src.s, err |-> ""]
    ELSE IF src.tm
    THEN IF src.kind = "ptr" /\ src.isNil THEN [ks |-> emptyString, err |-> ""]
         ELSE IF src.fails THEN [ks |-> <<>>, err |-> "MarshalText failed"]
         ELSE [ks |-> src.text, err |-> ""]
    ELSE IF src.kind = "int" THEN [ks |-> appendInt(<<>>, src.n, 10), err |-> ""]
    ELSE IF src.kind = "uint" THEN [ks |-> appendUint(<<>>, src.n, 10), err |-> ""]
    ELSE [ks |-> <<>>, err |-> ""]

resolveKeyName(src) ==
    IF src.kind = "string" THEN [ks |-> src.s, err |-> ""]
    ELSE IF src.tm
    THEN IF src.kind = "ptr" /\ src.isNil THEN [ks |-> emptyString, err |-> ""]
         ELSE IF src.fails THEN [ks |-> <<>>, err |-> "MarshalText failed"]
         ELSE [ks |-> src.text, err |-> ""]
    ELSE IF src.kind = "int" THEN [ks |-> appendInt(<<>>, src.n, 10), err |-> ""]
    ELSE IF src.kind = "uint" THEN [ks |-> appendUint(<<>>, src.n, 10), err |-> ""]
    ELSE [ks |-> <<>>, err |-> "unexpected map key type: " \o src.kind]

\* fmt.Errorf("json: encoding error for map key: %q", err.Error()): %q puts
\* the text in double quotes; the key errors hold no quote and no backslash
\* for it to escape
keyError(err) == ("json: encoding error for map key: \"" \o err) \o "\""

\* the three appends that write "ks":
appendKey(buffer, ks) == (Append(buffer, QUOTE) \o ks) \o <<QUOTE, COLON>>

\* ------------------------------------------------------------------------
\* Struct and map encoders.  stream is the content of stream.buffer; every
\* encoder returns [buffer, err], err = "" for a nil error.  cfg is
\* defaultConfig.
\* ------------------------------------------------------------------------
RECURSIVE Encoder_appendToBytes(_, _, _, _)

\* encodeSingleField without the omitempty test
encodeSingleFieldNoOmit(cfg, e, buffer, src) ==
    LET field == e.fields[1]
        f == src.fields[field.index + 1]
        r == Encoder_appendToBytes(cfg, field.encoder,
                                   appendKey(buffer, field.name), f)
    IN IF r.err # "" THEN r
       ELSE [buffer |-> Append(r.buffer, RBRACE), err |-> ""]

\* structEncoder.encodeSingleField
encodeSingleField(cfg, e, buffer, src) ==
    LET field == e.fields[1]
        f == src.fields[field.index + 1]
    IN IF field.omitempty /\ isEmptyValue(f)
       THEN [buffer |-> Append(buffer, RBRACE), err |-> ""]
       ELSE LET r == Encoder_appendToBytes(cfg, field.encoder,
                                           appendKey(buffer, field.name), f)
            IN IF r.err # "" THEN r
               ELSE [buffer |-> Append(r.buffer, RBRACE), err |-> ""]

\* the loop of structEncoder.encodeFieldsFast from the field at position i
RECURSIVE FieldsFastLoop(_, _, _, _, _)
FieldsFastLoop(cfg, e, buffer, src, i) ==
    IF i > Len(e.fields) THEN [buffer |-> Append(buffer, RBRACE), err |-> ""]
    ELSE LET field == e.fields[i]
             b1 == IF i > 1 THEN Append(buffer, COMMA) ELSE buffer
             f == src.fields[field.index + 1]
             r == Encoder_appendToBytes(cfg, field.encoder,
                                        appendKey(b1, field.name), f)
         IN IF r.err # "" THEN r
            ELSE FieldsFastLoop(cfg, e, r.buffer, src, i + 1)

encodeFieldsFast(cfg, e, buffer, src) == FieldsFastLoop(cfg, e, buffer, src, 1)

\* FieldsOmitEmptyLoop with the comma decided by the field position instead
\* of the firstField flag
RECURSIVE FieldsOmitEmptyLoopByIndex(_, _, _, _, _, _)
FieldsOmitEmptyLoopByIndex(cfg, e, buffer, src, i, firstField) ==
    IF i > Len(e.fields) THEN [buffer |-> Append(buffer, RBRACE), err |-> ""]
    ELSE LET field == e.fields[i]
             f == src.fields[field.index + 1]
         IN IF field.omitempty /\ isEmptyValue(f)
            THEN FieldsOmitEmptyLoopByIndex(cfg, e, buffer, src, i + 1, firstField)
            ELSE LET b1 == IF i > 1 THEN Append(buffer, COMMA) ELSE buffer
                     r == Encoder_appendToBytes(cfg, field.encoder,
                                                appendKey(b1, field.name), f)
                 IN IF r.err # "" THEN r
                    ELSE FieldsOmitEmptyLoopByIndex(cfg, e, r.buffer, src, i + 1, FALSE)

\* the loop of structEncoder.encodeFieldsWithOmitEmpty from position i
RECURSIVE FieldsOmitEmptyLoop(_, _, _, _, _, _)
FieldsOmitEmptyLoop(cfg, e, buffer, src, i, firstField) ==
    IF i > Len(e.fields) THEN [buffer |-> Append(buffer, RBRACE), err |-> ""]
    ELSE LET field == e.fields[i]
             f == src.fields[field.index + 1]
         IN IF field.omitempty /\ isEmptyValue(f)
            THEN FieldsOmitEmptyLoop(cfg, e, buffer, src, i + 1, firstField)
            ELSE LET b1 == IF ~firstField THEN Append(buffer, COMMA) ELSE buffer
                     r == Encoder_appendToBytes(cfg, field.encoder,
                                                appendKey(b1, field.name), f)
                 IN IF r.err # "" THEN r
                    ELSE FieldsOmitEmptyLoop(cfg, e, r.buffer, src, i + 1, FALSE)

encodeFieldsWithOmitEmpty(cfg, e, buffer, src) ==
    FieldsOmitEmptyLoop(cfg, e, buffer, src, 1, TRUE)

\* structEncoder.estimateSize
estimateSize(e) ==
    LET RECURSIVE Sum(_)
        Sum(k) == IF k = 0 THEN 2 ELSE Sum(k - 1) + Len(e.fields[k].name) + 4 + 20
    IN Sum(Len(e.fields))

\* structEncoder.appendToBytes
structEncoder_appendToBytes(cfg, e, buffer, src) ==
    IF src.kind = "ptr" /\ src.isNil
    THEN [buffer |-> buffer \o nullString, err |-> ""]
    ELSE LET s == IF src.kind = "ptr" THEN src.elem ELSE src
             b1 == Append(buffer, LBRACE)
         IN CASE e.numFields = 0 -> [buffer |-> Append(b1, RBRACE), err |-> ""]
              [] e.numFields = 1 -> encodeSingleField(cfg, e, b1, s)
              [] OTHER -> IF e.hasOmitEmpty
                          THEN encodeFieldsWithOmitEmpty(cfg, e, b1, s)
                          ELSE encodeFieldsFast(cfg, e, b1, s)

\* the element encoder of a map encoder for the value v: the cached one, or
\* for mapStringInterfaceEncoder the one looked up per value
elemEncoder(e, v) ==
    IF e.type = "map" THEN e.valueEncoder ELSE getEncoderFast(v)

\* encodeSinglePair of mapEncoder and mapStringInterfaceEncoder
encodeSinglePair(cfg, e, buffer, mi) ==
    LET k == resolveKeyName(mi[1].k)
    IN IF k.err # "" THEN [buffer |-> buffer, err |-> keyError(k.err)]
       ELSE LET r == Encoder_appendToBytes(cfg, elemEncoder(e, mi[1].v),
                                           appendKey(buffer, k.ks), mi[1].v)
            IN IF r.err # "" THEN r
               ELSE [buffer |-> Append(r.buffer, RBRACE), err |-> ""]

\* the first loop of encodeSortedPairs: resolve every key into sv
RECURSIVE CollectPairs(_, _, _)
CollectPairs(mi, i, sv) ==
    IF i > Len(mi) THEN [sv |-> sv, err |-> ""]
    ELSE LET k == resolveKeyName(mi[i].k)
         IN IF k.err # "" THEN [sv |-> sv, err |-> keyError(k.err)]
            ELSE CollectPairs(mi, i + 1, [sv EXCEPT ![i] = [ks |-> k.ks, v |-> mi[i].v]])

\* the second loop of encodeSortedPairs: emit sv in order
RECURSIVE EmitPairs(_, _, _, _, _)
EmitPairs(cfg, e, buffer, sv, i) ==
    IF i > Len(sv) THEN [buffer |-> Append(buffer, RBRACE), err |-> ""]
    ELSE LET b1 == IF i > 1 THEN Append(buffer, COMMA) ELSE buffer
             r == Encoder_appendToBytes(cfg, elemEncoder(e, sv[i].v),
                                        appendKey(b1, sv[i].ks), sv[i].v)
         IN IF r.err # "" THEN r
            ELSE EmitPairs(cfg, e, r.buffer, sv, i + 1)

\* encodeSortedPairs of mapEncoder and mapStringInterfaceEncoder
encodeSortedPairs(cfg, e, buffer, mi, mapLen) ==
    LET sv0 == [i \in 1..mapLen |-> [ks |-> <<>>, v |-> BoolVal(FALSE)]]
        c == CollectPairs(mi, 1, sv0)
    IN IF c.err # "" THEN [buffer |-> buffer, err |-> c.err]
       ELSE EmitPairs(cfg, e, buffer, slicesSortFunc(c.sv), 1)

\* the loop of encodeUnsortedPairs from the entry at position i
RECURSIVE UnsortedLoop(_, _, _, _, _)
UnsortedLoop(cfg, e, buffer, mi, i) ==
    IF i > Len(mi) THEN [buffer |-> Append(buffer, RBRACE), err |-> ""]
    ELSE LET k == resolveKeyName(mi[i].k)
         IN IF k.err # "" THEN [buffer |-> buffer, err |-> keyError(k.err)]
            ELSE LET b1 == IF i > 1 THEN Append(buffer, COMMA) ELSE buffer
                     r == Encoder_appendToBytes(cfg, elemEncoder(e, mi[i].v),
                                                appendKey(b1, k.ks), mi[i].v)
                 IN IF r.err # "" THEN r
                    ELSE UnsortedLoop(cfg, e, r.buffer, mi, i + 1)

\* encodeUnsortedPairs with its loop one entry ahead
encodeUnsortedPairsAhead(cfg, e, buffer, mi) == UnsortedLoop(cfg, e, buffer, mi, 2)

encodeUnsortedPairs(cfg, e, buffer, mi) == UnsortedLoop(cfg, e, buffer, mi, 1)

\* encodeMultiplePairs that does not look at SortMapKeys
encodeMultiplePairsUnsorted(cfg, e, buffer, mi, mapLen) ==
    encodeUnsortedPairs(cfg, e, buffer, mi)

encodeMultiplePairs(cfg, e, buffer, mi, mapLen) ==
    IF cfg.SortMapKeys THEN encodeSortedPairs(cfg, e, buffer, mi, mapLen)
    ELSE encodeUnsortedPairs(cfg, e, buffer, mi)

\* appendToBytes of mapEncoder and of mapStringInterfaceEncoder: the two
\* differ only in e, that is in elemEncoder
mapEncoder_appendToBytes(cfg, e, buffer, src) ==
    IF src.isNil THEN [buffer |-> buffer \o nullString, err |-> ""]
    ELSE LET mapLen == Len(src.iter)
         IN IF mapLen = 0 THEN [buffer |-> buffer \o emptyObject, err |-> ""]
            ELSE IF mapLen = 1
                 THEN encodeSinglePair(cfg, e, Append(buffer, LBRACE), src.iter)
                 ELSE encodeMultiplePairs(cfg, e, Append(buffer, LBRACE), src.iter, mapLen)

\* the dynamic dispatch e.appendToBytes(stream, src)
Encoder_appendToBytes(cfg, e, buffer, src) ==
    CASE e.type = "null" -> [buffer |-> buffer \o nullString, err |-> ""]
      [] e.type = "bool" ->
           [buffer |-> buffer \o (IF src.b THEN trueString ELSE falseString), err |-> ""]
      [] e.type = "int" -> [buffer |-> appendInt(buffer, src.n, 10), err |-> ""]
      [] e.type = "uint" -> [buffer |-> appendUint(buffer, src.n, 10), err |-> ""]
      [] e.type = "string" -> stringEncoder_appendToBytes(buffer, src.s)
      [] e.type = "bytes" -> byteSliceEncoder_appendToBytes(buffer, src.isNil, src.b)
      [] e.type = "struct" -> structEncoder_appendToBytes(cfg, e, buffer, src)
      [] e.type \in {"map", "mapStringInterface"} ->
           mapEncoder_appendToBytes(cfg, e, buffer, src)
      [] OTHER -> [buffer |-> buffer, err |-> "unsupported map key type: " \o src.kind]

\* ------------------------------------------------------------------------
\* State
\*
\* input  the arguments of the encoder call under study
\* out    the results of the calls made on input so far, each [buffer, err]
\*        with what else the call chose
\*
\* pool     how many times each encoder stream is in encoderStreamPool
\* streams  the buffer (array, len, cap) of each encoder stream
\* heap     the bytes of each array, as runs
\* calls    each Marshal call: its position, value, stream and results
\*
\* scratchPool  how many times each scratch sequence is in reflectWithStringPool
\* scratch      the capacity of each scratch sequence, 0 for none
\* frames       each goroutine's sorted map encodes in flight, innermost
\*              last, and the encodes it has finished
\* ------------------------------------------------------------------------
VARIABLES input, out, pool, streams, heap, calls, scratchPool, scratch, frames

vars == <<input, out, pool, streams, heap, calls, scratchPool, scratch, frames>>

scratchVars == <<scratchPool, scratch, frames>>

poolVars == <<pool, streams, heap, calls, scratchVars>>

\* the Marshal calls; the stream a call makes with New carries the call's id
Calls == 1..NumCalls

\* the arrays a call can allocate: the buffer of a New stream, the buffer
\* sized to the estimate, the buffer append grew, the fresh buffer of a
\* release, and the returned copy
ArrayIds == Calls \X {"new", "sized", "grown", "fresh", "result"}
NoArray == <<0, "nil">>
NilSlice == [isNil |-> TRUE, arr |-> NoArray, len |-> 0]
NoBuffer == [arr |-> NoArray, len |-> 0, cap |-> 0]

\* how deep sorted map encodes nest in one call
MaxDepth == 2

\* the scratch sequences a goroutine can make at a depth: by New, by make in
\* getReflectWithStringSlice, by make in encodeSortedPairs
ScratchIds == (Calls \X (1..MaxDepth)) \X {"new", "make", "remake"}

IdleFrames == [root |-> "none", stack |-> <<>>, log |-> <<>>]

IdleCall == [pc |-> "idle", v |-> "none", stream |-> 0, err |-> "",
             result |-> NilSlice, puts |-> 0, written |-> 0,
             capBefore |-> 0, capAfter |-> 0]

\* no Marshal call was made and the pool is empty
PoolIdle ==
    /\ pool = [s \in Calls |-> 0]
    /\ streams = [s \in Calls |-> NoBuffer]
    /\ heap = [a \in ArrayIds |-> <<>>]
    /\ calls = [c \in Calls |-> IdleCall]
    /\ scratchPool = [s \in ScratchIds |-> 0]
    /\ scratch = [s \in ScratchIds |-> 0]
    /\ frames = [g \in Calls |-> IdleFrames]

\* capacity of a scratch sequence made by the pool's New
ScratchNewCap == 16

\* largest capacity putReflectWithStringSlice gives back to the pool
ScratchMaxCap == 64

\* the scratch sequences in the pool
Pooled == {s \in ScratchIds : scratchPool[s] > 0}

\* reflectWithStringPool.Get: a pooled scratch sequence, or the one New makes
PoolGet(fresh) == Pooled \cup {fresh}

\* getReflectWithStringSlice: the sequence got from the pool, or a made one
\* of capacity size when the pooled one is smaller
getReflectWithStringSlice(caps, slice, size, made) ==
    IF caps[slice] < size THEN made ELSE slice

\* putReflectWithStringSlice without the capacity test
putReflectWithStringSliceAny(pl, caps, slice) ==
    [pl EXCEPT ![slice] = @ + 1]

\* putReflectWithStringSlice: back to the pool unless the capacity is above 64
putReflectWithStringSlice(pl, caps, slice) ==
    IF caps[slice] <= ScratchMaxCap THEN [pl EXCEPT ![slice] = @ + 1] ELSE pl

\* encodeSortedPairs taking its scratch sequence for a map of mapLen
\* entries: got is what the pool's Get returned, fresh the sequence New
\* makes, made and remade the sequences the two make calls give.  deferred
\* is the argument of the deferred put, sv the sequence the loops use.
ScratchTake(pl, caps, got, fresh, made, remade, mapLen) ==
    LET c0 == IF got = fresh THEN [caps EXCEPT ![fresh] = ScratchNewCap] ELSE caps
        slice == getReflectWithStringSlice(c0, got, mapLen, made)
        c1 == IF slice = made THEN [c0 EXCEPT ![made] = mapLen, ![got] = 0] ELSE c0
        sv == IF c1[slice] < mapLen THEN remade ELSE slice
        c2 == IF sv = remade THEN [c1 EXCEPT ![remade] = mapLen] ELSE c1
    IN [pool |-> IF got = fresh THEN pl ELSE [pl EXCEPT ![got] = @ - 1],
        caps |-> c2, sv |-> sv, deferred |-> slice]

\* encodeSortedPairs returning: the deferred put runs, and a sequence that
\* is not in the pool afterwards is garbage
ScratchGive(pl, caps, sv, deferred) ==
    LET after == putReflectWithStringSlice(pl, caps, deferred)
        lost == {s \in {sv, deferred} : after[s] = 0}
    IN [pool |-> after,
        caps |-> [s \in ScratchIds |-> IF s \in lost THEN 0 ELSE caps[s]]]

\* all sequences over S of length lo..hi
SeqsOf(S, lo, hi) == UNION {[1..n -> S] : n \in lo..hi}

\* the contents stream.buffer may have when a nested encoder is entered
Prefixes == {<<>>, <<91>>, <<LBRACE, QUOTE, 120, QUOTE, COLON>>}

Configs == {[SortMapKeys |-> b] : b \in BOOLEAN}

\* ------------------------------------------------------------------------
\* Struct encoding
\* ------------------------------------------------------------------------
\* an encoder and a value for a field
FieldOptions ==
    {[encoder |-> intEncoder, f |-> IntVal(I64(0))],
     [encoder |-> intEncoder, f |-> IntVal(I64(-7))],
     [encoder |-> stringEncoder, f |-> StringVal(<<>>)],
     [encoder |-> stringEncoder, f |-> StringVal(<<97, 10>>)],
     [encoder |-> mapStringInterfaceEncoder, f |-> MapVal(TRUE, <<>>)],
     [encoder |-> noSupportEncoder, f |-> ChanVal]}

FieldNames == <<<<97>>, <<98, 98>>, <<99>>, <<100>>, <<101>>>>

\* the struct encoder and the struct of a sequence of field options
StructOf(opts, omit) ==
    [e |-> structEncoder([k \in 1..Len(opts) |->
                structField(FieldNames[k], k - 1, omit[k], opts[k].encoder)]),
     src |-> StructVal([k \in 1..Len(opts) |-> opts[k].f])]

StructInputs ==
    {[op |-> "struct", cfg |-> [SortMapKeys |-> FALSE], buffer |-> p,
      e |-> StructOf(opts, omit).e,
      src |-> IF ptr = "nil" THEN PtrVal(TRUE, StructOf(opts, omit).src)
              ELSE IF ptr = "ptr" THEN PtrVal(FALSE, StructOf(opts, omit).src)
              ELSE StructOf(opts, omit).src] :
        p \in Prefixes, ptr \in {"nil", "ptr", "value"},
        <<opts, omit>> \in UNION {[1..n -> FieldOptions] \X [1..n -> BOOLEAN] : n \in 0..MaxFields}}

InitStruct == input \in StructInputs /\ out = <<>> /\ PoolIdle

\* appendToBytes of a structEncoder is called on the input
StructEncode ==
    /\ input.op = "struct"
    /\ out = <<>>
    /\ out' = <<Encoder_appendToBytes(input.cfg, input.e, input.buffer, input.src)>>
    /\ UNCHANGED <<input, poolVars>>

NextStruct == StructEncode

SpecStruct == InitStruct /\ [][NextStruct]_vars

\* the struct behind the input, a pointer followed
StructSrc == IF input.src.kind = "ptr" THEN input.src.elem ELSE input.src

\* the bytes of one field alone: "name":value
FieldText(cfg, field, f) ==
    appendKey(<<>>, field.name) \o Encoder_appendToBytes(cfg, field.encoder, <<>>, f).buffer

\* the fields that are not (omittable and empty), in declaration order
RECURSIVE KeptFields(_, _, _)
KeptFields(e, s, i) ==
    IF i > Len(e.fields) THEN <<>>
    ELSE LET f == s.fields[e.fields[i].index + 1]
         IN IF e.fields[i].omitempty /\ isEmptyValue(f) THEN KeptFields(e, s, i + 1)
            ELSE <<i>> \o KeptFields(e, s, i + 1)

\* the texts joined by exactly one comma between neighbours
RECURSIVE JoinComma(_)
JoinComma(texts) ==
    IF texts = <<>> THEN <<>>
    ELSE IF Len(texts) = 1 THEN texts[1]
    ELSE (texts[1] \o <<COMMA>>) \o JoinComma(Tail(texts))

ExpectedObject(cfg, e, s) ==
    LET kept == KeptFields(e, s, 1)
    IN (<<LBRACE>> \o JoinComma([k \in 1..Len(kept) |->
            FieldText(cfg, e.fields[kept[k]], s.fields[e.fields[kept[k]].index + 1])]))
       \o <<RBRACE>>

StructEncoded ==
    /\ input.op = "struct" /\ out # <<>> /\ out[1].err = ""
    /\ ~(input.src.kind = "ptr" /\ input.src.isNil)

\* C1: a struct with N >= 1 fields that encodes without error appends exactly
\* the object of the fields that are not (omittable and empty), in declaration
\* order, one comma between neighbours and none elsewhere; {} when every field
\* is omittable and empty.
C1_OmitEmptyObject ==
    (StructEncoded /\ input.e.numFields >= 1)
        => out[1].buffer = input.buffer \o ExpectedObject(input.cfg, input.e, StructSrc)

\* the first field of three is omitted and the other two are emitted
C1_Witness ==
    /\ StructEncoded /\ input.e.numFields = 3
    /\ KeptFields(input.e, StructSrc, 1) = <<2, 3>>
    /\ out[1].buffer = input.buffer \o ExpectedObject(input.cfg, input.e, StructSrc)

\* ------------------------------------------------------------------------
\* String and byte slice encoding
\* ------------------------------------------------------------------------
\* bytes the inputs are built from: a letter, the quote, the backslash, a
\* named and an unnamed control byte, DEL, and UTF-8 lead and continuation
\* bytes
Alphabet == {97, QUOTE, BSLASH, 10, 1, 127, 195, 169, 226}

StringInputs ==
    {[op |-> o, buffer |-> p, isNil |-> FALSE, s |-> s] :
        o \in {"string", "bytes"}, p \in {<<>>, <<91>>},
        s \in SeqsOf(Alphabet, 0, MaxStrLen)}

InitString == input \in StringInputs /\ out = <<>> /\ PoolIdle

\* stringEncoder.appendToBytes is called on the input
StringEncode ==
    /\ input.op = "string"
    /\ out = <<>>
    /\ out' = <<stringEncoder_appendToBytes(input.buffer, input.s)>>
    /\ UNCHANGED <<input, poolVars>>

\* byteSliceEncoder.appendToBytes is called on the input
BytesEncode ==
    /\ input.op = "bytes"
    /\ out = <<>>
    /\ out' = <<byteSliceEncoder_appendToBytes(input.buffer, input.isNil, input.s)>>
    /\ UNCHANGED <<input, poolVars>>

NextString == StringEncode \/ BytesEncode

SpecString == InitString /\ [][NextString]_vars

\* bytes that JSON forbids raw inside a string
MustEscape(c) == c < 32 \/ c = QUOTE \/ c = BSLASH

IsHex(c, d) == c = 48 + d \/ (d >= 10 /\ (c = 87 + d \/ c = 55 + d))

\* body[j..] starts with a two-byte escape of c
ShortEscapeAt(body, j, c) ==
    /\ j + 1 <= Len(body) /\ body[j] = BSLASH
    /\ \/ c = QUOTE /\ body[j + 1] = QUOTE
       \/ c = BSLASH /\ body[j + 1] = BSLASH
       \/ c = 8 /\ body[j + 1] = 98
       \/ c = 12 /\ body[j + 1] = 102
       \/ c = 10 /\ body[j + 1] = 110
       \/ c = 13 /\ body[j + 1] = 114
       \/ c = 9 /\ body[j + 1] = 116

\* body[j..] starts with the six-byte escape \u00XX of c
LongEscapeAt(body, j, c) ==
    /\ j + 5 <= Len(body) /\ body[j] = BSLASH /\ body[j + 1] = 117
    /\ body[j + 2] = 48 /\ body[j + 3] = 48
    /\ IsHex(body[j + 4], c \div 16) /\ IsHex(body[j + 5], c % 16)

\* body[j..] is s[i..] with every byte that must be escaped in escaped form
\* and every other byte copied
RECURSIVE EscapedFrom(_, _, _, _)
EscapedFrom(s, i, body, j) ==
    IF i > Len(s) THEN j = Len(body) + 1
    ELSE IF MustEscape(s[i])
    THEN \/ ShortEscapeAt(body, j, s[i]) /\ EscapedFrom(s, i + 1, body, j + 2)
         \/ LongEscapeAt(body, j, s[i]) /\ EscapedFrom(s, i + 1, body, j + 6)
    ELSE j <= Len(body) /\ body[j] = s[i] /\ EscapedFrom(s, i + 1, body, j + 1)

\* text is a quote, the escaped form of s, a quote
IsQuoted(text, s) ==
    /\ Len(text) >= 2 /\ text[1] = QUOTE /\ text[Len(text)] = QUOTE
    /\ EscapedFrom(s, 1, SubSeq(text, 2, Len(text) - 1), 1)

StringEncoded == input.op \in {"string", "bytes"} /\ ~input.isNil /\ out # <<>>

AllSafe(s) == \A k \in 1..Len(s) : s[k] < RuneSelf /\ safeSet[s[k]]

\* C3: a text or non-nil byte slice is appended as its content between two
\* quotes with every byte below 0x20, every quote and every backslash in
\* escaped form and every other byte copied in order; an input of safe ASCII
\* bytes is appended as itself between quotes.
C3_StringEscaped ==
    StringEncoded =>
        /\ out[1].err = ""
        /\ Len(out[1].buffer) >= Len(input.buffer)
        /\ SubSeq(out[1].buffer, 1, Len(input.buffer)) = input.buffer
        /\ IsQuoted(SubSeq(out[1].buffer, Len(input.buffer) + 1, Len(out[1].buffer)),
                    input.s)
        /\ AllSafe(input.s) =>
              out[1].buffer = (Append(input.buffer, QUOTE) \o input.s) \o <<QUOTE>>

\* a text with an unnamed control byte, a letter and a quote has been encoded
C3_Witness ==
    /\ StringEncoded /\ input.op = "string"
    /\ input.s = <<1, 97, QUOTE>>
    /\ out[1].buffer = input.buffer \o <<QUOTE, BSLASH, 117, 48, 48, 48, 49, 97, BSLASH, QUOTE, QUOTE>>

\* ------------------------------------------------------------------------
\* Map encoding
\* ------------------------------------------------------------------------
\* Key types and the keys of each: texts, integers, pointers to a type with
\* MarshalText (nil, two that marshal to the same text, one whose MarshalText
\* fails) and floats, which no key resolution supports.
StringKeys == {StringVal(<<97>>), StringVal(<<98>>), StringVal(<<97, QUOTE>>),
               StringVal(<<97, 98>>)}
IntKeys == {IntVal(I64(-3)), IntVal(I64(2)), IntVal(I64(10))}
TextKeys == {TextVal("ptr", 0, TRUE, <<>>, FALSE),
             TextVal("ptr", 1, FALSE, <<107>>, FALSE),
             TextVal("ptr", 2, FALSE, <<107>>, FALSE),
             TextVal("ptr", 3, FALSE, <<>>, TRUE)}
FloatKeys == {FloatVal(1), FloatVal(2)}

IntElems == {IntVal(I64(1)), IntVal(I64(2))}
AnyElems == {IntVal(I64(1)), StringVal(<<120>>), ChanVal}

\* a map encoder with a key type and the element values of its maps
MapTypes ==
    {[e |-> mapStringInterfaceEncoder, keys |-> StringKeys, elems |-> AnyElems],
     [e |-> mapEncoder(intEncoder), keys |-> StringKeys, elems |-> IntElems],
     [e |-> mapEncoder(intEncoder), keys |-> IntKeys, elems |-> IntElems],
     [e |-> mapEncoder(intEncoder), keys |-> TextKeys, elems |-> IntElems],
     [e |-> mapEncoder(intEncoder), keys |-> FloatKeys, elems |-> IntElems]}

\* the maps over keys K and elements V with at most MaxEntries entries, each
\* as its set of entries
MapsOf(K, V) ==
    UNION {{ {[k |-> k, v |-> m[k]] : k \in D} : m \in [D -> V] } :
              D \in {D \in SUBSET K : Cardinality(D) <= MaxEntries}}

\* the orders in which MapRange may yield the entries
Iterations(entries) ==
    LET n == Cardinality(entries)
    IN {s \in [1..n -> entries] : \A i, j \in 1..n : s[i] = s[j] => i = j}

MapInputs ==
    UNION {{[op |-> "map", cfg |-> c, buffer |-> <<>>, e |-> t.e, isNil |-> FALSE,
             entries |-> m] : c \in Configs, m \in MapsOf(t.keys, t.elems)} :
              t \in MapTypes}
    \cup {[op |-> "map", cfg |-> c, buffer |-> <<>>, e |-> t.e, isNil |-> TRUE,
           entries |-> {}] : c \in Configs, t \in MapTypes}

InitMap == input \in MapInputs /\ out = <<>> /\ PoolIdle

\* the map encoder reaches encodeSortedPairs: the map is not nil, has two
\* or more entries, and keys are sorted
SortedPath(cfg, isNil, mapLen) == cfg.SortMapKeys /\ ~isNil /\ mapLen >= 2

\* the sorted encodes of the input map that have been entered and have not
\* returned
MapInFlight == {g \in Calls : frames[g].stack # <<>>}

\* the encodes of the input map begun so far
MapBegun == Len(out) + Cardinality(MapInFlight)

\* appendToBytes of a map encoder is called on the input map and does not
\* reach encodeSortedPairs: the map yields its entries in some order and the
\* call returns.  The same map is encoded at most twice.
MapEncode ==
    /\ input.op = "map"
    /\ MapBegun < 2
    /\ ~SortedPath(input.cfg, input.isNil, Cardinality(input.entries))
    /\ \E iter \in Iterations(input.entries) :
          LET r == Encoder_appendToBytes(input.cfg, input.e, input.buffer,
                                         MapVal(input.isNil, iter))
          IN out' = Append(out, [buffer |-> r.buffer, err |-> r.err, iter |-> iter])
    /\ UNCHANGED <<input, poolVars>>

\* appendToBytes of a map encoder is called on the input map by goroutine g
\* and reaches encodeSortedPairs, which takes its scratch sequence, defers
\* the put and resizes the sequence.  A second call, by another goroutine or
\* by a MarshalText of a key, may run before this one goes on.
MapSortedEnter(g) ==
    /\ input.op = "map"
    /\ MapBegun < 2
    /\ SortedPath(input.cfg, input.isNil, Cardinality(input.entries))
    /\ frames[g].root = "none"
    /\ \A h \in 1..(g - 1) : frames[h].root # "none"
    /\ LET fresh == <<<<g, 1>>, "new">>
       IN \E got \in PoolGet(fresh) :
            LET t == ScratchTake(scratchPool, scratch, got, fresh,
                                 <<<<g, 1>>, "make">>, <<<<g, 1>>, "remake">>,
                                 Cardinality(input.entries))
            IN /\ scratchPool' = t.pool
               /\ scratch' = t.caps
               /\ frames' = [frames EXCEPT
                     ![g].root = "input",
                     ![g].stack = <<[map |-> "input", sv |-> t.sv,
                                     deferred |-> t.deferred, pc |-> "collect",
                                     visited |-> FALSE, err |-> "none"]>>]
    /\ UNCHANGED <<input, out, pool, streams, heap, calls>>

\* the rest of encodeSortedPairs for goroutine g: the map yields its entries
\* in some order, the keys are resolved and sorted, the entries emitted, and
\* on every return the deferred put runs
MapSortedExit(g) ==
    /\ input.op = "map"
    /\ frames[g].stack # <<>>
    /\ \E iter \in Iterations(input.entries) :
          LET r == Encoder_appendToBytes(input.cfg, input.e, input.buffer,
                                         MapVal(input.isNil, iter))
              top == frames[g].stack[1]
              given == ScratchGive(scratchPool, scratch, top.sv, top.deferred)
          IN /\ out' = Append(out, [buffer |-> r.buffer, err |-> r.err, iter |-> iter])
             /\ scratchPool' = given.pool
             /\ scratch' = given.caps
             /\ frames' = [frames EXCEPT
                   ![g].stack = <<>>,
                   ![g].log = Append(@,
                       [map |-> "input",
                        err |-> IF r.err = "" THEN "none" ELSE r.err,
                        cap |-> scratch[top.deferred],
                        handed |-> given.pool # scratchPool])]
    /\ UNCHANGED <<input, pool, streams, heap, calls>>

NextMap ==
    \/ MapEncode
    \/ \E g \in Calls : MapSortedEnter(g)
    \/ \E g \in Calls : MapSortedExit(g)

SpecMap == InitMap /\ [][NextMap]_vars

\* what Marshal hands to the caller for a result: the bytes, or nil on error
Output(r) == IF r.err = "" THEN r.buffer ELSE <<>>

ResolvedKey(entry) == resolveKeyName(entry.k).ks

\* the bytes of one entry alone: "key":value with the key as resolved
EntryText(cfg, e, entry) ==
    LET v == Encoder_appendToBytes(cfg, elemEncoder(e, entry.v), <<>>, entry.v)
    IN appendKey(<<>>, ResolvedKey(entry)) \o v.buffer

ObjectOf(cfg, e, order) ==
    (<<LBRACE>> \o JoinComma([k \in 1..Len(order) |-> EntryText(cfg, e, order[k])]))
    \o <<RBRACE>>

Ascending(order) ==
    \A i, j \in 1..Len(order) :
        i < j => bytesCompare(ResolvedKey(order[i]), ResolvedKey(order[j])) <= 0

DistinctResolvedKeys(entries) ==
    \A x, y \in entries : x # y => ResolvedKey(x) # ResolvedKey(y)

SortedTwice ==
    /\ input.op = "map" /\ input.cfg.SortMapKeys /\ ~input.isNil
    /\ Cardinality(input.entries) >= 2 /\ Len(out) = 2

\* C2: in sorted-key mode two encodes of the same map with two or more
\* entries give byte-identical output whatever the iteration orders.  The
\* encoder breaks this for a map with two keys that resolve to the same
\* bytes: the sort compares the resolved bytes only.
C2_SortedIdentical ==
    SortedTwice => Output(out[1]) = Output(out[2])

\* what the sorted path does guarantee: a map with two or more entries that
\* encodes without error is emitted in ascending byte order of the resolved
\* keys, and when the resolved keys are pairwise distinct two encodes of it
\* give byte-identical output whatever the iteration orders.
C2_SortedDistinctIdentical ==
    SortedTwice =>
        /\ \A n \in 1..2 : out[n].err = "" =>
              \E order \in Iterations(input.entries) :
                  /\ Ascending(order)
                  /\ out[n].buffer = input.buffer \o ObjectOf(input.cfg, input.e, order)
        /\ DistinctResolvedKeys(input.entries) =>
              /\ out[1].err = out[2].err
              /\ Output(out[1]) = Output(out[2])

\* a map of three distinct keys was encoded from two different iteration
\* orders, neither of them ascending, into the same bytes
C2_Witness ==
    /\ SortedTwice /\ Cardinality(input.entries) = 3
    /\ DistinctResolvedKeys(input.entries)
    /\ out[1].iter # out[2].iter
    /\ ~Ascending(out[1].iter) /\ ~Ascending(out[2].iter)
    /\ out[1].err = "" /\ out[1].buffer = out[2].buffer

MapEncoded == input.op = "map" /\ ~input.isNil /\ input.entries # {} /\ out # <<>>

\* text[j..] is the members of order from position i on, each with its key a
\* well-formed quoted string for the resolved key, and the closing brace
RECURSIVE MembersFrom(_, _, _, _, _, _)
MembersFrom(cfg, e, text, j, order, i) ==
    IF i > Len(order) THEN j = Len(text) /\ text[j] = RBRACE
    ELSE LET ks == ResolvedKey(order[i])
             v == Encoder_appendToBytes(cfg, elemEncoder(e, order[i].v), <<>>,
                                        order[i].v).buffer
             j0 == IF i > 1 THEN j + 1 ELSE j
         IN /\ i > 1 => (j <= Len(text) /\ text[j] = COMMA)
            /\ \E L \in 2..(6 * Len(ks) + 2) :
                  /\ j0 + L + Len(v) <= Len(text)
                  /\ IsQuoted(SubSeq(text, j0, j0 + L - 1), ks)
                  /\ text[j0 + L] = COLON
                  /\ SubSeq(text, j0 + L + 1, j0 + L + Len(v)) = v
                  /\ MembersFrom(cfg, e, text, j0 + L + 1 + Len(v), order, i + 1)

\* C4: a map that encodes without error is appended as an object whose keys
\* are well-formed JSON strings: every quote, backslash and byte below 0x20 of
\* a resolved key appears in escaped form only.
C4_KeysEscaped ==
    MapEncoded =>
        \A n \in 1..Len(out) : out[n].err = "" =>
            \E order \in Iterations(input.entries) :
                /\ out[n].buffer[Len(input.buffer) + 1] = LBRACE
                /\ MembersFrom(input.cfg, input.e,
                               SubSeq(out[n].buffer, Len(input.buffer) + 1,
                                      Len(out[n].buffer)),
                               2, order, 1)

\* ------------------------------------------------------------------------
\* Nil and empty values
\* ------------------------------------------------------------------------
NilInputs ==
    {i \in StructInputs : i.src.kind = "ptr"}
    \cup {[op |-> "map", cfg |-> c, buffer |-> p, e |-> t.e, isNil |-> n,
           entries |-> {}] :
             c \in Configs, p \in Prefixes, t \in MapTypes, n \in BOOLEAN}
    \cup UNION {{[op |-> "map", cfg |-> c, buffer |-> p, e |-> t.e, isNil |-> FALSE,
                  entries |-> {[k |-> k, v |-> v]}] :
                    c \in Configs, p \in Prefixes, k \in t.keys, v \in t.elems} :
                  t \in MapTypes}
    \cup {[op |-> "bytes", buffer |-> p, isNil |-> FALSE, s |-> s] :
             p \in Prefixes, s \in SeqsOf(Alphabet, 0, 1)}
    \cup {[op |-> "bytes", buffer |-> p, isNil |-> TRUE, s |-> <<>>] : p \in Prefixes}

InitNil == input \in NilInputs /\ out = <<>> /\ PoolIdle

NextNil == StructEncode \/ MapEncode \/ BytesEncode

SpecNil == InitNil /\ [][NextNil]_vars

NilInput ==
    \/ input.op = "struct" /\ input.src.kind = "ptr" /\ input.src.isNil
    \/ input.op \in {"map", "bytes"} /\ input.isNil

\* C5: a nil struct pointer, a nil map and a nil byte slice each append the
\* four bytes null and nothing else, whatever the buffer holds already; an
\* empty non-nil map appends {} and an empty non-nil byte slice appends "".
C5_NilAndEmpty ==
    \A n \in 1..Len(out) :
        /\ NilInput =>
              out[n].err = "" /\ out[n].buffer = input.buffer \o <<110, 117, 108, 108>>
        /\ (input.op = "map" /\ ~input.isNil /\ input.entries = {}) =>
              out[n].err = "" /\ out[n].buffer = input.buffer \o <<LBRACE, RBRACE>>
        /\ (input.op = "bytes" /\ ~input.isNil /\ input.s = <<>>) =>
              out[n].err = "" /\ out[n].buffer = input.buffer \o <<QUOTE, QUOTE>>

\* a nil byte slice was appended as null behind an opening bracket
C5_Witness ==
    /\ input.op = "bytes" /\ input.isNil /\ input.buffer = <<91>>
    /\ out # <<>> /\ out[1].buffer = <<91, 110, 117, 108, 108>>

\* ------------------------------------------------------------------------
\* Integer rendering
\* ------------------------------------------------------------------------
\* unsigned words on every path of appendUint: around each threshold, with
\* zero digit pairs inside, and at the ends of the 64-bit range
UintSamples ==
    {U64(n) : n \in (0..12) \cup (95..105) \cup
                    {999, 1000, 9999, 10000, 10005, 10100, 12345, 99999, 100000,
                     100005, 1000000, 1000001, 12345678, 99999999, 100000000,
                     100000001, 2147483647}}
    \cup {<<0, 0, 1, 0>>, MaxInt64, MinInt64, MaxUint64}

IntegerInputs ==
    {[op |-> "uint", buffer |-> p, n |-> u] : p \in {<<>>, <<91>>}, u \in UintSamples}
    \cup {[op |-> "int", buffer |-> p, n |-> i] :
             p \in {<<>>, <<91>>}, i \in UintSamples \cup {I64Neg(u) : u \in UintSamples}}

InitInteger == input \in IntegerInputs /\ out = <<>> /\ PoolIdle

\* appendUint(dst, u, 10) is called on the input
UintAppend ==
    /\ input.op = "uint"
    /\ out = <<>>
    /\ out' = <<[buffer |-> appendUint(input.buffer, input.n, 10), err |-> ""]>>
    /\ UNCHANGED <<input, poolVars>>

\* appendInt(dst, i, 10) is called on the input
IntAppend ==
    /\ input.op = "int"
    /\ out = <<>>
    /\ out' = <<[buffer |-> appendInt(input.buffer, input.n, 10), err |-> ""]>>
    /\ UNCHANGED <<input, poolVars>>

NextInteger == UintAppend \/ IntAppend

SpecInteger == InitInteger /\ [][NextInteger]_vars

\* the value modulo 2^64 of the decimal digits t[1..k]
RECURSIVE DecimalValue(_, _)
DecimalValue(t, k) ==
    IF k = 0 THEN U64Zero
    ELSE U64AddSmall(U64MulSmall(DecimalValue(t, k - 1), 10).w, t[k] - 48)

\* no step of the evaluation of t[1..k] leaves the 64-bit range
DecimalFits(t) ==
    \A k \in 1..Len(t) :
        \E m \in {U64MulSmall(DecimalValue(t, k - 1), 10)} :
            m.carry = 0 /\ ~U64Lt(U64AddSmall(m.w, t[k] - 48), m.w)

\* t is the canonical decimal numeral of the unsigned word u
IsDecimalOf(t, u) ==
    \E d \in {t} :
        /\ Len(d) >= 1
        /\ \A k \in 1..Len(d) : d[k] >= 48 /\ d[k] <= 57
        /\ Len(d) > 1 => d[1] # 48
        /\ DecimalFits(d)
        /\ DecimalValue(d, Len(d)) = u

Appended == SubSeq(out[1].buffer, Len(input.buffer) + 1, Len(out[1].buffer))

\* C10: appendUint(dst, u, 10) returns dst followed by exactly the canonical
\* decimal digits of u on every path, and appendInt the same behind a minus
\* sign for a negative value.
C10_ExactDecimal ==
    (input.op \in {"uint", "int"} /\ out # <<>>) =>
        /\ Len(out[1].buffer) > Len(input.buffer)
        /\ SubSeq(out[1].buffer, 1, Len(input.buffer)) = input.buffer
        /\ IF input.op = "int" /\ I64IsNeg(input.n)
           THEN /\ Appended[1] = MINUS
                /\ IsDecimalOf(Tail(Appended), I64Neg(input.n))
           ELSE IsDecimalOf(Appended, input.n)

\* ------------------------------------------------------------------------
\* Byte arrays of the heap, held as runs <<byte, count>> of equal bytes
\* ------------------------------------------------------------------------
\* the runs of a byte string
Compress(bytes) ==
    LET n == Len(bytes)
        starts == {i \in 1..n : i = 1 \/ bytes[i] # bytes[i - 1]}
        endOf(i) == LET later == {j \in starts : j > i}
                    IN IF later = {} THEN n
                       ELSE (CHOOSE j \in later : \A k \in later : j <= k) - 1
        RECURSIVE From(_)
        From(i) == IF i > n THEN <<>>
                   ELSE <<<<bytes[i], endOf(i) - i + 1>>>> \o From(endOf(i) + 1)
    IN From(1)

RECURSIVE RunsLen(_)
RunsLen(r) == IF r = <<>> THEN 0 ELSE r[1][2] + RunsLen(Tail(r))

\* the first n bytes of r
RECURSIVE RunsTake(_, _)
RunsTake(r, n) ==
    IF n <= 0 \/ r = <<>> THEN <<>>
    ELSE IF r[1][2] >= n THEN <<<<r[1][1], n>>>>
    ELSE <<r[1]>> \o RunsTake(Tail(r), n - r[1][2])

\* r without its first n bytes
RECURSIVE RunsDrop(_, _)
RunsDrop(r, n) ==
    IF n <= 0 \/ r = <<>> THEN r
    ELSE IF r[1][2] > n THEN <<<<r[1][1], r[1][2] - n>>>> \o Tail(r)
    ELSE RunsDrop(Tail(r), n - r[1][2])

\* a followed by b
RunsCat(a, b) ==
    IF a = <<>> THEN b
    ELSE IF b = <<>> THEN a
    ELSE IF a[Len(a)][1] = b[1][1]
    THEN (SubSeq(a, 1, Len(a) - 1) \o <<<<b[1][1], a[Len(a)][2] + b[1][2]>>>>) \o Tail(b)
    ELSE a \o b

\* the array r with w written at offset off
RunsWrite(r, off, w) ==
    RunsCat(RunsCat(RunsTake(r, off), w), RunsDrop(r, off + RunsLen(w)))

\* ------------------------------------------------------------------------
\* The encoder stream pool and Marshal
\* ------------------------------------------------------------------------
DefaultCap == 2048
HighWater == 8192

\* lengths of the long texts among the root values
BigLen == 8200
GrowLen == 8170

\* The values handed to Marshal: a short text; a text whose size estimate
\* exceeds HighWater; a text whose estimate stays below HighWater and whose
\* escapes make the output outgrow the estimated capacity; a struct with a
\* map field whose element no encoder supports; a map whose key has no name;
\* a map from text to text.
RootNames == {"small", "big", "grow", "bad", "badkey", "strmap"}

RootValue(name) ==
    CASE name = "small" -> StringVal(<<97, 10>>)
      [] name = "big" -> StringVal([k \in 1..BigLen |-> 98])
      [] name = "grow" -> StringVal([k \in 1..GrowLen |-> 99] \o <<1, 1, 1>>)
      [] name = "bad" ->
           StructVal(<<IntVal(I64(-7)),
                       MapVal(FALSE, <<[k |-> StringVal(<<107>>), v |-> ChanVal]>>)>>)
      [] name = "badkey" ->
           MapVal(FALSE, <<[k |-> FloatVal(1), v |-> IntVal(I64(1))]>>)
      [] name = "strmap" ->
           MapVal(FALSE, <<[k |-> StringVal(<<97>>), v |-> StringVal(<<120>>)]>>)

RootEncoder(name) ==
    CASE name = "bad" ->
           structEncoder(<<structField(<<97>>, 0, FALSE, intEncoder),
                           structField(<<109>>, 1, FALSE, mapStringInterfaceEncoder)>>)
      [] name = "badkey" -> mapEncoder(intEncoder)
      [] name = "strmap" -> mapEncoder(stringEncoder)
      [] OTHER -> stringEncoder

\* the dynamic type of each root value, as Marshal's type switch sees it
RootType(name) ==
    CASE name = "bad" -> "struct"
      [] name = "badkey" -> "map[float64]int"
      [] name = "strmap" -> "map[string]string"
      [] OTHER -> "string"

\* estimateJSONSize: the type switch on the dynamic type t of the value v
estimateJSONSize(t, v) ==
    CASE t = "map[string]interface {}" -> Len(v.iter) * 32
      [] t = "[]interface {}" -> Len(v.elems) * 16
      [] t = "string" -> Len(v.s) + 16
      [] t = "map[string]string" -> Len(v.iter) * 24
      [] t = "[]string" -> Len(v.elems) * 12
      [] OTHER -> 256

\* encodeValueToBytes(stream, v, type) on an empty buffer: the encoder of the
\* type appends the value
encodeValueToBytes(name) ==
    Encoder_appendToBytes([SortMapKeys |-> FALSE], RootEncoder(name), <<>>,
                          RootValue(name))

\* the sizes of the appends of the scan loop of stringEncoder.appendToBytes
\* from position i: the run before each escaped byte, then its escape
RECURSIVE StringScanSizes(_, _, _)
StringScanSizes(s, start, i) ==
    LET j == SafeRunEnd(s, i)
    IN IF j > Len(s) THEN [sizes |-> <<>>, start |-> start]
       ELSE IF s[j] < RuneSelf
            THEN LET run == IF start < j THEN <<j - start>> ELSE <<>>
                     esc == <<Len(escapeStringToBytes(<<>>, s[j]))>>
                     rest == StringScanSizes(s, j + 1, j + 1)
                 IN [sizes |-> (run \o esc) \o rest.sizes, start |-> rest.start]
            ELSE StringScanSizes(s, start, j + DecodeRuneSize(s, j))

\* how many bytes each append of stringEncoder.appendToBytes adds, in order
StringAppendSizes(s) ==
    IF s = <<>> THEN <<Len(emptyString)>>
    ELSE LET l == StringScanSizes(s, 1, 1)
             rest == IF l.start <= Len(s) THEN <<Len(s) - l.start + 1>> ELSE <<>>
         IN ((<<1>> \o l.sizes) \o rest) \o <<1>>

\* how many bytes each append of a root's encode adds.  The struct and map
\* roots write fewer bytes than DefaultCap into an empty buffer, so none of
\* their appends and neither of their size reservations grows the buffer;
\* their bytes are taken as one append.
AppendSizes(name, written) ==
    IF RootEncoder(name) = stringEncoder
    THEN StringAppendSizes(RootValue(name).s)
    ELSE <<written>>

\* what encoding each root value appends, in which pieces, and its size
\* estimate
EncodedRoot ==
    [name \in RootNames |->
        LET r == encodeValueToBytes(name)
        IN [out |-> Compress(r.buffer), err |-> r.err,
            appends |-> AppendSizes(name, Len(r.buffer)),
            est |-> estimateJSONSize(RootType(name), RootValue(name))]]


\* the encodings of the root values during a run of Marshal calls
Encoded == input.roots

\* the arrays some stream or some returned slice points into
Referenced(strs, cls) ==
    {strs[s].arr : s \in Calls} \cup {cls[c].result.arr : c \in Calls}

\* the heap once the arrays nothing points into are collected
Collect(h, strs, cls) ==
    [a \in ArrayIds |-> IF a \in Referenced(strs, cls) THEN h[a] ELSE <<>>]

\* the call is between acquiring its stream and releasing it
InFlight(c) == calls[c].pc \in {"encode", "copy", "release"}

\* encoderStreamPool.New
newEncoderStream(arr) == [arr |-> arr, len |-> 0, cap |-> DefaultCap]

\* the buffer getEncoderStreamWithSize leaves in the stream it got
getEncoderStreamWithSize(buffer, estimatedSize, arr) ==
    IF buffer.cap < estimatedSize
    THEN [arr |-> arr, len |-> 0, cap |-> estimatedSize]
    ELSE buffer

\* the buffer releaseEncoderStream leaves in the stream without the
\* capacity test
releaseEncoderStreamKeep(buffer, arr) ==
    [buffer EXCEPT !.len = 0]

\* the buffer releaseEncoderStream leaves in the stream before it is Put
releaseEncoderStream(buffer, arr) ==
    IF buffer.cap > HighWater
    THEN [arr |-> arr, len |-> 0, cap |-> DefaultCap]
    ELSE [buffer EXCEPT !.len = 0]

\* the allocator's size classes up to 32768 bytes
SizeClasses ==
    <<8, 16, 24, 32, 48, 64, 80, 96, 112, 128, 144, 160, 176, 192, 208, 224,
      240, 256, 288, 320, 352, 384, 416, 448, 480, 512, 576, 640, 704, 768,
      896, 1024, 1152, 1280, 1408, 1536, 1792, 2048, 2304, 2688, 3072, 3200,
      3456, 4096, 4864, 5376, 6144, 6528, 6784, 6912, 8192, 9472, 9728,
      10240, 10880, 12288, 13568, 14336, 16384, 18432, 19072, 20480, 21760,
      24576, 27264, 28672, 32768>>

\* the bytes the allocator hands out for a request of size bytes: the next
\* size class, or whole pages of 8192 above the classes
roundupsize(size) ==
    IF size <= 32768
    THEN LET fit == {k \in 1..Len(SizeClasses) : SizeClasses[k] >= size}
         IN SizeClasses[CHOOSE k \in fit : \A m \in fit : k <= m]
    ELSE ((size + 8191) \div 8192) * 8192

\* the growth loop of append for a capacity of 256 or more: a quarter and
\* 192 more each round until newLen fits
RECURSIVE GrowLoop(_, _)
GrowLoop(newcap, newLen) ==
    IF newcap >= newLen THEN newcap
    ELSE GrowLoop(newcap + (newcap + 768) \div 4, newLen)

\* the capacity append gives a byte slice of capacity oldCap that it grows
\* to hold newLen > oldCap bytes
growslice(oldCap, newLen) ==
    roundupsize(IF newLen > 2 * oldCap THEN newLen
                ELSE IF oldCap < 256 THEN 2 * oldCap
                ELSE GrowLoop(oldCap, newLen))

\* the capacity of a buffer of capacity cap and length len after appends
\* of the given sizes
RECURSIVE AppendCap(_, _, _)
AppendCap(cap, len, sizes) ==
    IF sizes = <<>> THEN cap
    ELSE LET need == len + Head(sizes)
         IN AppendCap(IF need > cap THEN growslice(cap, need) ELSE cap,
                      need, Tail(sizes))

\* Marshal without the defer: the stream is released as soon as it is
\* acquired
MarshalAcquireNoDefer(c) ==
    /\ calls[c].pc = "idle"
    /\ \E v \in RootNames, s \in {t \in Calls : pool[t] > 0} \cup {c} :
          LET got == IF s = c THEN newEncoderStream(<<c, "new">>) ELSE streams[s]
              sized == getEncoderStreamWithSize(got, Encoded[v].est,
                                                <<c, "sized">>)
              strs == [streams EXCEPT ![s] = releaseEncoderStream(sized, <<c, "fresh">>)]
              cls == [calls EXCEPT ![c].pc = "encode", ![c].v = v, ![c].stream = s]
          IN /\ pool' = [pool EXCEPT ![s] = IF s = c THEN 1 ELSE @]
             /\ streams' = strs
             /\ calls' = cls
             /\ heap' = Collect(heap, strs, cls)
    /\ UNCHANGED <<scratchVars, input, out>>

\* Marshal up to the encode: estimateJSONSize and getEncoderStreamWithSize.
\* Get hands out a pooled stream or, when it finds none, a New one.
MarshalAcquire(c) ==
    /\ calls[c].pc = "idle"
    /\ \E v \in RootNames, s \in {t \in Calls : pool[t] > 0} \cup {c} :
          LET got == IF s = c THEN newEncoderStream(<<c, "new">>) ELSE streams[s]
              sized == getEncoderStreamWithSize(got, Encoded[v].est,
                                                <<c, "sized">>)
              strs == [streams EXCEPT ![s] = sized]
              cls == [calls EXCEPT ![c].pc = "encode", ![c].v = v, ![c].stream = s]
          IN /\ pool' = [pool EXCEPT ![s] = IF s = c THEN @ ELSE @ - 1]
             /\ streams' = strs
             /\ calls' = cls
             /\ heap' = Collect(heap, strs, cls)
    /\ UNCHANGED <<scratchVars, input, out>>

\* the stream and heap after the encoder appended w to the stream's buffer,
\* into an array of capacity cap when the buffer is too small
BufferAppend(c, w, cap) ==
    LET s == calls[c].stream
        buffer == streams[s]
        need == buffer.len + RunsLen(w)
    IN IF need <= buffer.cap
       THEN [streams |-> [streams EXCEPT ![s].len = need],
             heap |-> [heap EXCEPT ![buffer.arr] = RunsWrite(@, buffer.len, w)],
             len |-> need]
       ELSE [streams |-> [streams EXCEPT ![s] =
                             [arr |-> <<c, "grown">>, len |-> need, cap |-> cap]],
             heap |-> [heap EXCEPT ![<<c, "grown">>] =
                             RunsCat(RunsTake(heap[buffer.arr], buffer.len), w)],
             len |-> need]

\* Marshal going on to copy the buffer whether or not the encode failed
MarshalEncodeNoAbort(c) ==
    /\ calls[c].pc = "encode"
    /\ LET e == Encoded[calls[c].v]
           buffer == streams[calls[c].stream]
       IN \E cap \in {AppendCap(buffer.cap, buffer.len, e.appends)} :
             LET a == BufferAppend(c, e.out, cap)
                 cls == [calls EXCEPT ![c].pc = "copy",
                                      ![c].err = e.err, ![c].written = a.len]
             IN /\ streams' = a.streams
                /\ calls' = cls
                /\ heap' = Collect(a.heap, a.streams, cls)
    /\ UNCHANGED <<scratchVars, input, out, pool>>

\* Marshal's encodeValueToBytes: the encoder appends to the stream's buffer
\* until it is done or fails; on an error Marshal returns nil and the error
MarshalEncode(c) ==
    /\ calls[c].pc = "encode"
    /\ LET e == Encoded[calls[c].v]
           buffer == streams[calls[c].stream]
       IN \E cap \in {AppendCap(buffer.cap, buffer.len, e.appends)} :
             LET a == BufferAppend(c, e.out, cap)
                 cls == [calls EXCEPT ![c].pc = IF e.err = "" THEN "copy" ELSE "release",
                                      ![c].err = e.err, ![c].written = a.len]
             IN /\ streams' = a.streams
                /\ calls' = cls
                /\ heap' = Collect(a.heap, a.streams, cls)
    /\ UNCHANGED <<scratchVars, input, out, pool>>

\* Marshal returning the stream's buffer itself
MarshalCopyAlias(c) ==
    /\ calls[c].pc = "copy"
    /\ LET buffer == streams[calls[c].stream]
       IN calls' = [calls EXCEPT ![c].pc = "release",
                       ![c].result = [isNil |-> FALSE, arr |-> buffer.arr,
                                      len |-> buffer.len]]
    /\ UNCHANGED <<scratchVars, input, out, pool, streams, heap>>

\* Marshal's result := append([]byte(nil), stream.buffer...)
MarshalCopy(c) ==
    /\ calls[c].pc = "copy"
    /\ LET buffer == streams[calls[c].stream]
       IN /\ calls' = [calls EXCEPT ![c].pc = "release",
                          ![c].result = [isNil |-> FALSE, arr |-> <<c, "result">>,
                                         len |-> buffer.len]]
          /\ heap' = [heap EXCEPT ![<<c, "result">>] =
                          RunsTake(heap[buffer.arr], buffer.len)]
    /\ UNCHANGED <<scratchVars, input, out, pool, streams>>

\* Marshal's deferred releaseEncoderStream, after which the call has returned
MarshalRelease(c) ==
    /\ calls[c].pc = "release"
    /\ LET s == calls[c].stream
           released == releaseEncoderStream(streams[s], <<c, "fresh">>)
           strs == [streams EXCEPT ![s] = released]
           cls == [calls EXCEPT ![c].pc = "done", ![c].puts = @ + 1,
                                ![c].capBefore = streams[s].cap,
                                ![c].capAfter = released.cap]
       IN /\ streams' = strs
          /\ pool' = [pool EXCEPT ![s] = @ + 1]
          /\ calls' = cls
          /\ heap' = Collect(heap, strs, cls)
    /\ UNCHANGED <<scratchVars, input, out>>

\* the garbage collector empties a slot of the sync.Pool
PoolDrop ==
    /\ \E s \in Calls :
          /\ pool[s] > 0
          /\ pool' = [pool EXCEPT ![s] = @ - 1]
          /\ LET strs == IF pool[s] = 1 /\ \A c \in Calls : InFlight(c) => calls[c].stream # s
                         THEN [streams EXCEPT ![s] = NoBuffer]
                         ELSE streams
             IN /\ streams' = strs
                /\ heap' = Collect(heap, strs, calls)
    /\ UNCHANGED <<scratchVars, input, out, calls>>

\* Marshal may be called with any of the root values; input keeps what the
\* encoders append for each
Init == input = [op |-> "marshal", roots |-> EncodedRoot] /\ out = <<>> /\ PoolIdle

Next ==
    \/ \E c \in Calls : MarshalAcquire(c)
    \/ \E c \in Calls : MarshalEncode(c)
    \/ \E c \in Calls : MarshalCopy(c)
    \/ \E c \in Calls : MarshalRelease(c)
    \/ PoolDrop

Spec == Init /\ [][Next]_vars


\* the call has returned to its caller
Returned(c) == calls[c].pc = "done"

\* the bytes a slice shows
SliceBytes(sl) == RunsTake(heap[sl.arr], sl.len)

\* C6 (errors abort the whole encode): when key resolution or a nested
\* element encoder fails, the Marshal call returns that error and a nil
\* slice, whatever the encoder had written to the buffer before it failed.
C6_ErrorsAbort ==
    \A c \in Calls :
        (calls[c].pc \in {"release", "done"} /\ Encoded[calls[c].v].err # "")
            => /\ calls[c].err = Encoded[calls[c].v].err
               /\ calls[c].result = NilSlice

\* a call returned the error of a nested element encoder after bytes had
\* been written to its buffer, and another the error of a key resolution
C6_Witness ==
    \E c, d \in Calls :
        /\ Returned(c) /\ calls[c].v = "bad" /\ calls[c].written > 1
        /\ Returned(d) /\ calls[d].v = "badkey" /\ calls[d].written > 0
        /\ calls[c].err # "" /\ calls[d].err # ""
        /\ calls[c].result = NilSlice /\ calls[d].result = NilSlice

\* C7 (stream release): a call puts its stream back exactly once when it
\* returns, with or without an error, and not before; a pooled stream has
\* an empty buffer of capacity at most 8192, the capacity it had when it was
\* released unless that was above 8192, and then 2048; a call starts its
\* encode on an empty buffer.
C7_StreamRelease ==
    /\ \A c \in Calls :
          /\ calls[c].puts = IF Returned(c) THEN 1 ELSE 0
          /\ Returned(c) =>
                calls[c].capAfter = IF calls[c].capBefore > HighWater
                                    THEN DefaultCap ELSE calls[c].capBefore
          /\ calls[c].pc = "encode" => streams[calls[c].stream].len = 0
    /\ \A s \in Calls :
          pool[s] > 0 => streams[s].len = 0 /\ streams[s].cap <= HighWater

\* one call failed and one succeeded with a buffer grown past 8192; both put
\* their stream back, and the pool holds a stream that had written bytes
C7_Witness ==
    \E c, d \in Calls :
        /\ Returned(c) /\ calls[c].err # "" /\ calls[c].written > 0
        /\ Returned(d) /\ calls[d].err = "" /\ calls[d].capBefore > HighWater
        /\ calls[d].capAfter = DefaultCap
        /\ pool[calls[c].stream] > 0

\* C8 (exclusive stream ownership): a call in flight holds a stream that is
\* not in the pool and that no other call in flight holds.
C8_ExclusiveStream ==
    \A c \in Calls :
        InFlight(c) =>
            /\ pool[calls[c].stream] = 0
            /\ \A d \in Calls \ {c} : InFlight(d) => calls[d].stream # calls[c].stream

\* two calls are in flight at once; one has written its encoding and the
\* other is about to write
C8_Witness ==
    \E c, d \in Calls :
        /\ c # d /\ calls[c].pc = "copy" /\ calls[d].pc = "encode"
        /\ calls[c].written > 0
        /\ calls[c].stream # calls[d].stream

\* C9 (returned output never aliases pooled storage): the slice of a
\* successful call points into no stream's buffer, and it shows the encoding
\* of the call's value from the copy onwards, whatever later and concurrent
\* calls do with the stream.
C9_NoAlias ==
    \A c \in Calls :
        ~calls[c].result.isNil =>
            /\ \A s \in Calls : streams[s].arr # calls[c].result.arr
            /\ SliceBytes(calls[c].result) = Encoded[calls[c].v].out

\* a call has returned its bytes, and another call took the same stream
\* from the pool and wrote a different encoding into the same array
C9_Witness ==
    \E c, d \in Calls :
        /\ c # d /\ Returned(c) /\ ~calls[c].result.isNil
        /\ calls[d].stream = calls[c].stream
        /\ calls[d].pc \in {"copy", "release"}
        /\ calls[d].v # calls[c].v
        /\ calls[c].capBefore = streams[calls[d].stream].cap
        /\ SliceBytes(calls[c].result) = Encoded[calls[c].v].out


\* the characters -9223372036854775808 and 18446744073709551615
MinInt64Text ==
    <<45, 57, 50, 50, 51, 51, 55, 50, 48, 51, 54, 56, 53, 52, 55, 55, 53, 56, 48, 56>>
MaxUint64Text ==
    <<49, 56, 52, 52, 54, 55, 52, 52, 48, 55, 51, 55, 48, 57, 53, 53, 49, 54, 49, 53>>

\* C11 (integer boundary rendering): appendInt of the minimum int64 appends
\* exactly -9223372036854775808, the negation inside appendInt leaving the
\* magnitude intact, and appendUint of the maximum uint64 appends exactly
\* 18446744073709551615.
C11_BoundaryRendering ==
    /\ (input.op = "int" /\ input.n = MinInt64 /\ out # <<>>)
          => out[1].buffer = input.buffer \o MinInt64Text
    /\ (input.op = "uint" /\ input.n = MaxUint64 /\ out # <<>>)
          => out[1].buffer = input.buffer \o MaxUint64Text

\* appendInt has rendered the minimum int64
C11_Witness ==
    /\ input.op = "int" /\ input.n = MinInt64 /\ out # <<>>
    /\ out[1].buffer = input.buffer \o MinInt64Text


\* ------------------------------------------------------------------------
\* Integer parsing
\* ------------------------------------------------------------------------
MinInt8 == <<65408, 65535, 65535, 65535>>
MaxInt8 == <<127, 0, 0, 0>>
MinInt16 == <<32768, 65535, 65535, 65535>>
MaxInt16 == <<32767, 0, 0, 0>>
MinInt32 == <<0, 32768, 65535, 65535>>
MaxInt32 == <<65535, 32767, 0, 0>>
MaxUint8 == <<255, 0, 0, 0>>
MaxUint16 == <<65535, 0, 0, 0>>
MaxUint32 == <<65535, 65535, 0, 0>>

\* signed comparison i < j of two words read as int64
I64Lt(i, j) ==
    IF I64IsNeg(i) # I64IsNeg(j) THEN I64IsNeg(i) ELSE U64Lt(i, j)

\* the digit value the parsers give a character, -1 for none
DigitValue(d) ==
    IF 48 <= d /\ d <= 57 THEN d - 48
    ELSE IF 97 <= d /\ d <= 122 THEN d - 97 + 10
    ELSE IF 65 <= d /\ d <= 90 THEN d - 65 + 10
    ELSE -1

\* the accumulation loop of parseIntFromBytes from b[i] on, with n so far:
\* [n, err, saturated]
RECURSIVE ParseIntLoop(_, _, _, _, _)
ParseIntLoop(b, base, negative, i, n) ==
    IF i > Len(b) THEN [n |-> n, err |-> "", saturated |-> FALSE]
    ELSE IF DigitValue(b[i]) = -1
    THEN [n |-> U64Zero, err |-> "invalid digit character", saturated |-> FALSE]
    ELSE IF DigitValue(b[i]) >= base
    THEN [n |-> U64Zero, err |-> "digit out of range of the base", saturated |-> FALSE]
    ELSE IF I64Lt(U64DivMod(MaxInt64, base).q, n)
    THEN [n |-> IF negative THEN MinInt64 ELSE MaxInt64, err |-> "",
          saturated |-> TRUE]
    ELSE ParseIntLoop(b, base, negative, i + 1,
                      U64AddSmall(U64MulSmall(n, base).w, DigitValue(b[i])))

\* the range check of parseIntFromBytes for a bit size
IntFits(n, bitSize) ==
    CASE bitSize = 8 -> ~I64Lt(n, MinInt8) /\ ~I64Lt(MaxInt8, n)
      [] bitSize = 16 -> ~I64Lt(n, MinInt16) /\ ~I64Lt(MaxInt16, n)
      [] bitSize = 32 -> ~I64Lt(n, MinInt32) /\ ~I64Lt(MaxInt32, n)
      [] OTHER -> TRUE

\* parseIntFromBytes(b, base, bitSize): [n, err]
parseIntFromBytes(b, base, bitSize) ==
    IF Len(b) = 0 THEN [n |-> U64Zero, err |-> "empty byte slice"]
    ELSE LET negative == b[1] = 45
             i == IF b[1] = 43 \/ b[1] = 45 THEN 1 ELSE 0
         IN IF i >= Len(b) THEN [n |-> U64Zero, err |-> "invalid number format"]
            ELSE LET r == ParseIntLoop(b, base, negative, i + 1, U64Zero)
                     m == IF negative THEN I64Neg(r.n) ELSE r.n
                 IN IF r.err # "" \/ r.saturated THEN [n |-> r.n, err |-> r.err]
                    ELSE IF IntFits(m, bitSize) THEN [n |-> m, err |-> ""]
                    ELSE [n |-> U64Zero, err |-> "value out of range of the bit size"]

\* the accumulation loop of parseUintFromBytes from b[i] on, with n so far
RECURSIVE ParseUintLoop(_, _, _, _)
ParseUintLoop(b, base, i, n) ==
    IF i > Len(b) THEN [n |-> n, err |-> "", saturated |-> FALSE]
    ELSE IF DigitValue(b[i]) = -1
    THEN [n |-> U64Zero, err |-> "invalid digit character", saturated |-> FALSE]
    ELSE IF DigitValue(b[i]) >= base
    THEN [n |-> U64Zero, err |-> "digit out of range of the base", saturated |-> FALSE]
    ELSE IF U64Lt(U64DivMod(MaxUint64, base).q, n)
    THEN [n |-> MaxUint64, err |-> "", saturated |-> TRUE]
    ELSE ParseUintLoop(b, base, i + 1,
                       U64AddSmall(U64MulSmall(n, base).w, DigitValue(b[i])))

\* the range check of parseUintFromBytes for a bit size
UintFits(n, bitSize) ==
    CASE bitSize = 8 -> ~U64Lt(MaxUint8, n)
      [] bitSize = 16 -> ~U64Lt(MaxUint16, n)
      [] bitSize = 32 -> ~U64Lt(MaxUint32, n)
      [] OTHER -> TRUE

\* parseUintFromBytes(b, base, bitSize): [n, err]
parseUintFromBytes(b, base, bitSize) ==
    IF Len(b) = 0 THEN [n |-> U64Zero, err |-> "empty byte slice"]
    ELSE LET i == IF b[1] = 43 THEN 1 ELSE 0
         IN IF i >= Len(b) THEN [n |-> U64Zero, err |-> "invalid number format"]
            ELSE LET r == ParseUintLoop(b, base, i + 1, U64Zero)
                 IN IF r.err # "" \/ r.saturated THEN [n |-> r.n, err |-> r.err]
                    ELSE IF UintFits(r.n, bitSize) THEN [n |-> r.n, err |-> ""]
                    ELSE [n |-> U64Zero, err |-> "value out of range of the bit size"]

\* ------------------------------------------------------------------------
\* Parsing digit strings
\* ------------------------------------------------------------------------
\* how many digits follow a stem
MaxTail == 2

MaxInt64Digits == strconvAppendUint(<<>>, MaxInt64, 10)
MaxUint64Digits == strconvAppendUint(<<>>, MaxUint64, 10)

\* leading digits: none, the limits of the bit sizes without their last
\* digit, and the limits of 64 bits without their last digit
Stems ==
    {<<>>, <<49>>, <<49, 50>>, <<50, 53>>, <<51, 50, 55, 54>>, <<54, 53, 53, 51>>,
     <<50, 49, 52, 55, 52, 56, 51, 54, 52>>, <<52, 50, 57, 52, 57, 54, 55, 50, 57>>,
     SubSeq(MaxInt64Digits, 1, Len(MaxInt64Digits) - 1),
     SubSeq(MaxUint64Digits, 1, Len(MaxUint64Digits) - 1)}
TailDigits == {48, 53, 54, 55, 56, 57}
Signs == {<<>>, <<43>>, <<45>>}
BitSizes == {8, 16, 32, 64}

\* the byte spans handed to the parsers: signed digit strings, and spans
\* that are no numbers
ParseTexts ==
    {(sg \o st) \o tl : sg \in Signs, st \in Stems, tl \in SeqsOf(TailDigits, 0, MaxTail)}
    \cup {<<49, 97>>, <<120>>, <<49, 32>>, <<45, 45, 49>>}

ParseInputs ==
    {[op |-> o, b |-> b, bitSize |-> z] :
        o \in {"parseInt", "parseUint"}, b \in ParseTexts, z \in BitSizes}

InitParse == input \in ParseInputs /\ out = <<>> /\ PoolIdle

\* parseIntFromBytes(b, 10, bitSize) is called on the input
IntParse ==
    /\ input.op = "parseInt"
    /\ out = <<>>
    /\ out' = <<parseIntFromBytes(input.b, 10, input.bitSize)>>
    /\ UNCHANGED <<input, poolVars>>

\* parseUintFromBytes(b, 10, bitSize) is called on the input
UintParse ==
    /\ input.op = "parseUint"
    /\ out = <<>>
    /\ out' = <<parseUintFromBytes(input.b, 10, input.bitSize)>>
    /\ UNCHANGED <<input, poolVars>>

NextParse == IntParse \/ UintParse

SpecParse == InitParse /\ [][NextParse]_vars


\* the span without its sign, for the signed and the unsigned parser
IntDigits(b) == IF b # <<>> /\ b[1] \in {43, 45} THEN Tail(b) ELSE b
UintDigits(b) == IF b # <<>> /\ b[1] = 43 THEN Tail(b) ELSE b

\* t is a non-empty string of decimal digits
IsDigits(t) == Len(t) >= 1 /\ \A k \in 1..Len(t) : 48 <= t[k] /\ t[k] <= 57

RECURSIVE StripZeros(_)
StripZeros(t) == IF Len(t) > 1 /\ t[1] = 48 THEN StripZeros(Tail(t)) ELSE t

\* s < t as numbers, for numerals without leading zeros
NumLt(s, t) ==
    \/ Len(s) < Len(t)
    \/ /\ Len(s) = Len(t)
       /\ \E k \in 1..Len(s) : s[k] < t[k] /\ \A j \in 1..(k - 1) : s[j] = t[j]

\* the numeral of the magnitude of a word read as int64
MagnitudeDigits(i) == strconvAppendUint(<<>>, IF I64IsNeg(i) THEN I64Neg(i) ELSE i, 10)

ParsedInt == input.op = "parseInt" /\ out # <<>>
ParsedUint == input.op = "parseUint" /\ out # <<>>

\* C12 (signed parse saturates): parseIntFromBytes with bit size 64 returns,
\* without error, the maximum int64 for a digit string above it, the minimum
\* int64 for one below it, and the exact value for one in between, so that
\* no wrapped accumulator shows in the result.
C12_SignedSaturates ==
    (ParsedInt /\ input.bitSize = 64 /\ IsDigits(IntDigits(input.b))) =>
        \E t \in {StripZeros(IntDigits(input.b))} :
            /\ out[1].err = ""
            /\ out[1].n =
                  IF input.b[1] # 45 /\ NumLt(MaxInt64Digits, t) THEN MaxInt64
                  ELSE IF input.b[1] = 45 /\ NumLt(MagnitudeDigits(MinInt64), t)
                  THEN MinInt64
                  ELSE IF input.b[1] = 45 THEN I64Neg(DecimalValue(t, Len(t)))
                  ELSE DecimalValue(t, Len(t))

\* C13 (unsigned parse saturates): parseUintFromBytes with bit size 64
\* returns the maximum uint64, without error, for every digit string whose
\* value is above it.
C13_UnsignedSaturates ==
    (ParsedUint /\ input.bitSize = 64 /\ IsDigits(UintDigits(input.b))
       /\ NumLt(MaxUint64Digits, StripZeros(UintDigits(input.b)))) =>
        out[1].err = "" /\ out[1].n = MaxUint64

\* the int64 limits of a bit size
MinIntOf(bitSize) ==
    CASE bitSize = 8 -> MinInt8 [] bitSize = 16 -> MinInt16
      [] bitSize = 32 -> MinInt32 [] OTHER -> MinInt64
MaxIntOf(bitSize) ==
    CASE bitSize = 8 -> MaxInt8 [] bitSize = 16 -> MaxInt16
      [] bitSize = 32 -> MaxInt32 [] OTHER -> MaxInt64
MaxUintOf(bitSize) ==
    CASE bitSize = 8 -> MaxUint8 [] bitSize = 16 -> MaxUint16
      [] bitSize = 32 -> MaxUint32 [] OTHER -> MaxUint64

\* the digit string of the input lies outside the range of its bit size
OutsideWidth ==
    IF input.op = "parseInt"
    THEN /\ IsDigits(IntDigits(input.b))
         /\ NumLt(MagnitudeDigits(IF input.b[1] = 45 THEN MinIntOf(input.bitSize)
                                  ELSE MaxIntOf(input.bitSize)),
                  StripZeros(IntDigits(input.b)))
    ELSE /\ IsDigits(UintDigits(input.b))
         /\ NumLt(MagnitudeDigits(MaxUintOf(input.bitSize)),
                  StripZeros(UintDigits(input.b)))

\* C17 (bit-width constraint): with bit size 8, 16 or 32 a result without
\* error lies within the range of the width, and a digit string whose value
\* is outside the range gets an error, however long it is.
C17_BitWidth ==
    ((ParsedInt \/ ParsedUint) /\ input.bitSize \in {8, 16, 32}) =>
        /\ out[1].err = "" =>
              IF input.op = "parseInt"
              THEN /\ ~I64Lt(out[1].n, MinIntOf(input.bitSize))
                   /\ ~I64Lt(MaxIntOf(input.bitSize), out[1].n)
              ELSE ~U64Lt(MaxUintOf(input.bitSize), out[1].n)
        /\ OutsideWidth => out[1].err # ""


\* ------------------------------------------------------------------------
\* Rendering an integer and parsing it back
\* ------------------------------------------------------------------------
RoundTripInputs ==
    {[op |-> "roundUint", n |-> u] : u \in UintSamples}
    \cup {[op |-> "roundInt", n |-> i] :
             i \in UintSamples \cup {I64Neg(u) : u \in UintSamples}}

InitRoundTrip == input \in RoundTripInputs /\ out = <<>> /\ PoolIdle

\* parseIntFromBytes(appendInt(nil, x, 10), 10, 64)
IntRoundTrip ==
    /\ input.op = "roundInt"
    /\ out = <<>>
    /\ \E text \in {appendInt(<<>>, input.n, 10)} :
          out' = <<[text |-> text, back |-> parseIntFromBytes(text, 10, 64)]>>
    /\ UNCHANGED <<input, poolVars>>

\* parseUintFromBytes(appendUint(nil, u, 10), 10, 64)
UintRoundTrip ==
    /\ input.op = "roundUint"
    /\ out = <<>>
    /\ \E text \in {appendUint(<<>>, input.n, 10)} :
          out' = <<[text |-> text, back |-> parseUintFromBytes(text, 10, 64)]>>
    /\ UNCHANGED <<input, poolVars>>

NextRoundTrip == IntRoundTrip \/ UintRoundTrip

SpecRoundTrip == InitRoundTrip /\ [][NextRoundTrip]_vars

\* C14 (integer round trip): parsing what appendInt or appendUint rendered
\* returns the rendered value without error.
C14_RoundTrip ==
    (input.op \in {"roundInt", "roundUint"} /\ out # <<>>) =>
        out[1].back.err = "" /\ out[1].back.n = input.n


\* ------------------------------------------------------------------------
\* Map keys without a name
\* ------------------------------------------------------------------------
\* the key is not text, not an integer and offers no text marshaling
UnsupportedKey(k) == k.kind \notin {"string", "int", "uint"} /\ ~k.tm

\* the key offers text marshaling, and its MarshalText fails
FailingMarshaler(k) ==
    k.kind # "string" /\ k.tm /\ ~(k.kind = "ptr" /\ k.isNil) /\ k.fails

NamelessKey(k) == UnsupportedKey(k) \/ FailingMarshaler(k)

\* the first position of a key without a name in an iteration
FirstNameless(iter) ==
    CHOOSE i \in 1..Len(iter) :
        NamelessKey(iter[i].k) /\ \A j \in 1..(i - 1) : ~NamelessKey(iter[j].k)

\* C15 (unsupported map keys fail the encode): when the iteration of a map
\* meets a key that is not text, not an integer and offers no text
\* marshaling, the encode returns an error that names the kind of the key,
\* and when it meets a key whose MarshalText fails, it returns that failure;
\* on the single-pair, the sorted and the unsorted path the buffer then
\* holds the opening brace and the entries emitted before the key, and no
\* closing brace.
C15_UnsupportedKeysFail ==
    MapEncoded =>
        \A n \in 1..Len(out) :
            (\E i \in 1..Len(out[n].iter) : NamelessKey(out[n].iter[i].k)) =>
                LET iter == out[n].iter
                    i == FirstNameless(iter)
                    emitted == IF input.cfg.SortMapKeys /\ Len(iter) >= 2 THEN 0 ELSE i - 1
                IN /\ out[n].err =
                         IF UnsupportedKey(iter[i].k)
                         THEN keyError("unexpected map key type: " \o iter[i].k.kind)
                         ELSE keyError("MarshalText failed")
                   /\ out[n].buffer =
                         (input.buffer \o <<LBRACE>>) \o
                         JoinComma([k \in 1..emitted |->
                                       EntryText(input.cfg, input.e, iter[k])])
                   /\ out[n].buffer[Len(out[n].buffer)] # RBRACE

\* a map of two or more entries met a key of an unsupported kind on the
\* sorted path and returned the error naming float64
C15_Witness ==
    /\ MapEncoded /\ input.cfg.SortMapKeys /\ Cardinality(input.entries) >= 2
    /\ UnsupportedKey(out[1].iter[1].k)
    /\ out[1].err = keyError("unexpected map key type: float64")
    /\ out[1].buffer = input.buffer \o <<LBRACE>>


\* ------------------------------------------------------------------------
\* Float parsing: which parts of the span the parser reads, and how it ends
\* ------------------------------------------------------------------------
IsDigit(c) == 48 <= c /\ c <= 57
IsExpMark(c) == c = 101 \/ c = 69

\* an index expression b[i] of the code, i counted from 0; none when i is
\* out of range, where the runtime panics
ByteAt(b, i) == IF 0 <= i /\ i < Len(b) THEN b[i + 1] ELSE -1

\* the integer part loop from b[i] on: [i, sawDigit, err]
RECURSIVE FloatIntPart(_, _, _)
FloatIntPart(b, i, sawDigit) ==
    IF i >= Len(b) THEN [i |-> i, sawDigit |-> sawDigit, err |-> ""]
    ELSE IF b[i + 1] = 46 THEN [i |-> i + 1, sawDigit |-> sawDigit, err |-> ""]
    ELSE IF IsExpMark(b[i + 1]) THEN [i |-> i, sawDigit |-> sawDigit, err |-> ""]
    ELSE IF IsDigit(b[i + 1]) THEN FloatIntPart(b, i + 1, TRUE)
    ELSE [i |-> i, sawDigit |-> sawDigit, err |-> "invalid digit character"]

\* the fraction loop from b[i] on: [i, sawDigit, err]
RECURSIVE FloatFraction(_, _, _)
FloatFraction(b, i, sawDigit) ==
    IF i >= Len(b) THEN [i |-> i, sawDigit |-> sawDigit, err |-> ""]
    ELSE IF IsExpMark(b[i + 1]) THEN [i |-> i, sawDigit |-> sawDigit, err |-> ""]
    ELSE IF IsDigit(b[i + 1]) THEN FloatFraction(b, i + 1, TRUE)
    ELSE [i |-> i, sawDigit |-> sawDigit, err |-> "invalid digit character"]

\* the exponent of the span from the marker b[i] on: "" or the error
FloatExponent(b, i) ==
    IF i + 1 >= Len(b) THEN "invalid exponent format"
    ELSE LET j == IF b[i + 2] = 43 \/ b[i + 2] = 45 THEN i + 2 ELSE i + 1
         IN IF j >= Len(b) \/ ~IsDigit(b[j + 1]) THEN "invalid exponent format"
            ELSE IF \A k \in (j + 1)..Len(b) : IsDigit(b[k]) THEN ""
            ELSE "invalid exponent character"

FloatError(err) == [outcome |-> "error", err |-> err]

\* parseFloatFromBytes(b, bitSize): how the call ends, "value", "error" or
\* "panic" on an index out of range
parseFloatFromBytes(b, bitSize) ==
    IF Len(b) = 0 THEN FloatError("empty byte slice")
    ELSE LET start == IF b[1] = 43 \/ b[1] = 45 THEN 1 ELSE 0
             ip == FloatIntPart(b, start, FALSE)
         IN IF ip.err # "" THEN FloatError(ip.err)
            ELSE IF ip.i < Len(b) /\ ByteAt(b, ip.i - 1) = -1
            THEN [outcome |-> "panic", err |-> "index out of range"]
            ELSE LET fp == IF ip.i < Len(b) /\ ByteAt(b, ip.i - 1) = 46
                           THEN FloatFraction(b, ip.i, ip.sawDigit)
                           ELSE ip
                 IN IF fp.err # "" THEN FloatError(fp.err)
                    ELSE IF ~fp.sawDigit THEN FloatError("invalid number format")
                    ELSE IF fp.i < Len(b) /\ IsExpMark(b[fp.i + 1])
                            /\ FloatExponent(b, fp.i) # ""
                    THEN FloatError(FloatExponent(b, fp.i))
                    ELSE [outcome |-> "value", err |-> ""]

\* the longest span handed to the float parser
MaxSpan == 4

\* a digit, the signs, the point, the exponent markers and a letter
FloatAlphabet == {49, 43, 45, 46, 101, 69, 120}

FloatInputs ==
    {[op |-> "parseFloat", b |-> b, bitSize |-> z] :
        b \in SeqsOf(FloatAlphabet, 0, MaxSpan), z \in {32, 64}}

InitFloat == input \in FloatInputs /\ out = <<>> /\ PoolIdle

\* parseFloatFromBytes(b, bitSize) is called on the input
FloatParse ==
    /\ input.op = "parseFloat"
    /\ out = <<>>
    /\ out' = <<parseFloatFromBytes(input.b, input.bitSize)>>
    /\ UNCHANGED <<input, poolVars>>

NextFloat == FloatParse

SpecFloat == InitFloat /\ [][NextFloat]_vars

\* the parts of a span: behind the sign, before and behind the first
\* exponent marker
Unsigned(b) == IF b # <<>> /\ b[1] \in {43, 45} THEN Tail(b) ELSE b
MarkAt(t) ==
    IF \E k \in 1..Len(t) : IsExpMark(t[k])
    THEN CHOOSE k \in 1..Len(t) : IsExpMark(t[k]) /\ \A j \in 1..(k - 1) : ~IsExpMark(t[j])
    ELSE 0
Mantissa(t) == IF MarkAt(t) = 0 THEN t ELSE SubSeq(t, 1, MarkAt(t) - 1)
ExponentOf(t) == SubSeq(t, MarkAt(t) + 1, Len(t))

\* the malformed spans the parser has to refuse: empty, a bare sign, no
\* digit before an exponent marker, nothing or only a sign behind it, or a
\* non-digit in the exponent
MalformedFloat(b) ==
    \/ b = <<>>
    \/ Unsigned(b) = <<>>
    \/ /\ MarkAt(Unsigned(b)) # 0
       /\ \/ \A k \in 1..Len(Mantissa(Unsigned(b))) : ~IsDigit(Mantissa(Unsigned(b))[k])
          \/ Unsigned(ExponentOf(Unsigned(b))) = <<>>
          \/ \E k \in 1..Len(Unsigned(ExponentOf(Unsigned(b)))) :
                ~IsDigit(Unsigned(ExponentOf(Unsigned(b)))[k])

\* C16 (float parsing fails cleanly): parseFloatFromBytes ends with a value
\* or an error on every span, never with an index out of range, and with an
\* error on every malformed span.
C16_FloatFailsCleanly ==
    (input.op = "parseFloat" /\ out # <<>>) =>
        /\ out[1].outcome \in {"value", "error"}
        /\ MalformedFloat(input.b) => out[1].outcome = "error"


\* ------------------------------------------------------------------------
\* Nil text-marshalable keys
\* ------------------------------------------------------------------------
NilTextKey(k) == k.kind = "ptr" /\ k.tm /\ k.isNil

\* "key":value with the empty key for a nil text-marshalable key
NamedEntryText(cfg, e, entry) ==
    LET v == Encoder_appendToBytes(cfg, elemEncoder(e, entry.v), <<>>, entry.v)
    IN appendKey(<<>>, IF NilTextKey(entry.k) THEN <<>> ELSE ResolvedKey(entry))
       \o v.buffer

\* C18 (nil text-marshalable key renders as empty text): a map with a nil
\* text-marshalable key that encodes without error holds that entry as "":
\* followed by its value, the key an empty JSON string with one pair of
\* quotes.
C18_NilTextKeyEmpty ==
    (MapEncoded /\ \E x \in input.entries : NilTextKey(x.k)) =>
        \A n \in 1..Len(out) : out[n].err = "" =>
            \E order \in Iterations(input.entries) :
                out[n].buffer =
                    ((input.buffer \o <<LBRACE>>) \o
                     JoinComma([k \in 1..Len(order) |->
                                   NamedEntryText(input.cfg, input.e, order[k])]))
                    \o <<RBRACE>>


\* ------------------------------------------------------------------------
\* Unsorted and sorted output of one map
\* ------------------------------------------------------------------------
\* every key and every value of the map encodes without error
AllEncode(cfg, e, entries) ==
    \A x \in entries :
        /\ resolveKeyName(x.k).err = ""
        /\ Encoder_appendToBytes(cfg, elemEncoder(e, x.v), <<>>, x.v).err = ""

SortedOn == [SortMapKeys |-> TRUE]

UnsortedEncoded ==
    /\ MapEncoded /\ ~input.cfg.SortMapKeys
    /\ AllEncode(input.cfg, input.e, input.entries)

\* C19 (unsorted output is a permutation of the sorted output): with sorted
\* mode off a map of n >= 1 entries that all encode is emitted as {, its n
\* "key":value texts in iteration order with n-1 commas between them, and };
\* with sorted mode on the same map is emitted from the same n texts in some
\* order; and a single entry is emitted as the multi-entry path would emit it.
C19_UnsortedPermutation ==
    UnsortedEncoded =>
        /\ \A n \in 1..Len(out) :
              /\ out[n].err = ""
              /\ out[n].buffer =
                    input.buffer \o ObjectOf(input.cfg, input.e, out[n].iter)
              /\ Len(out[n].iter) = 1 =>
                    out[n].buffer =
                        encodeMultiplePairs(input.cfg, input.e,
                            Append(input.buffer, LBRACE), out[n].iter, 1).buffer
        /\ \A iter \in Iterations(input.entries) :
              \E sorted \in {Encoder_appendToBytes(SortedOn, input.e, input.buffer,
                                                   MapVal(FALSE, iter))} :
                 /\ sorted.err = ""
                 /\ \E order \in Iterations(input.entries) :
                       sorted.buffer = input.buffer \o ObjectOf(SortedOn, input.e, order)

\* a map of three entries was emitted unsorted in an order that is not
\* ascending, which differs from its sorted output
C19_Witness ==
    /\ UnsortedEncoded /\ Len(out[1].iter) = 3 /\ ~Ascending(out[1].iter)
    /\ out[1].buffer = input.buffer \o ObjectOf(input.cfg, input.e, out[1].iter)
    /\ out[1].buffer #
          Encoder_appendToBytes(SortedOn, input.e, input.buffer,
                                MapVal(FALSE, out[1].iter)).buffer

\* ------------------------------------------------------------------------
\* The scratch sequences of sorted map encodes
\*
\* encodeSortedPairs takes a scratch sequence from reflectWithStringPool,
\* defers its return, collects the keys, sorts, and emits the entries; a
\* value that is itself a map of two or more entries runs a nested
\* encodeSortedPairs before the outer one returns.
\* ------------------------------------------------------------------------

\* entry counts of the maps under study: small, above the New capacity,
\* above the pooled capacity
PairLen == 2
WideLen == 20
HugeLen == 70

\* the maps under study: how many entries, where the encode fails if it
\* does, the map a nested sorted encode runs on, and where that encode
\* runs: in the key loop, when the MarshalText of a key encodes a map, or in
\* the emission loop, when a value is a map
ScratchShapes == {"pair", "wide", "huge", "badkey", "badvalue",
                  "outer", "outerwide", "outerhuge", "outerbad", "outerkey"}

Leaf(len, fail) == [len |-> len, fail |-> fail, nested |-> "none", during |-> "none"]

Outer(len, nested, during) ==
    [len |-> len, fail |-> "none", nested |-> nested, during |-> during]

Shape(m) ==
    CASE m = "pair"      -> Leaf(PairLen, "none")
      [] m = "wide"      -> Leaf(WideLen, "none")
      [] m = "huge"      -> Leaf(HugeLen, "none")
      [] m = "badkey"    -> Leaf(PairLen, "key")
      [] m = "badvalue"  -> Leaf(PairLen, "value")
      [] m = "outer"     -> Outer(PairLen, "pair", "emit")
      [] m = "outerwide" -> Outer(WideLen, "wide", "emit")
      [] m = "outerhuge" -> Outer(HugeLen, "huge", "emit")
      [] m = "outerbad"  -> Outer(HugeLen, "badkey", "emit")
      [] m = "outerkey"  -> Outer(PairLen, "pair", "collect")

\* the innermost sorted encode of goroutine g
Top(g) == frames[g].stack[Len(frames[g].stack)]

\* the map goroutine g encodes next: any map when it has not started, the
\* nested map when its innermost encode is in the loop the nested encode
\* runs in and has not reached it
NextShapes(g) ==
    IF frames[g].stack = <<>>
    THEN IF frames[g].root = "none" THEN ScratchShapes ELSE {}
    ELSE IF /\ Len(frames[g].stack) < MaxDepth
            /\ Top(g).pc = Shape(Top(g).map).during
            /\ ~Top(g).visited
         THEN {Shape(Top(g).map).nested}
         ELSE {}

\* encodeSortedPairs up to the key loop: the scratch sequence is taken, its
\* return is deferred with the sequence as taken, and it is resized
SortedEnter(g) ==
    \E m \in NextShapes(g) :
      LET depth == Len(frames[g].stack) + 1
          fresh == <<<<g, depth>>, "new">>
          made == <<<<g, depth>>, "make">>
          remade == <<<<g, depth>>, "remake">>
          mapLen == Shape(m).len
      IN \E got \in PoolGet(fresh) :
           LET t == ScratchTake(scratchPool, scratch, got, fresh, made, remade, mapLen)
               sv == t.sv
               slice == t.deferred
           IN /\ scratchPool' = t.pool
              /\ scratch' = t.caps
              /\ frames' = [frames EXCEPT
                    ![g].root = IF depth = 1 THEN m ELSE @,
                    ![g].stack = Append(@,
                        [map |-> m, sv |-> sv, deferred |-> slice,
                         pc |-> "collect", visited |-> FALSE, err |-> "none"])]
              /\ UNCHANGED <<input, out, pool, streams, heap, calls>>

\* the key loop once every MarshalText has returned: a key that does not
\* resolve returns the error
SortedCollect(g) ==
    /\ frames[g].stack # <<>>
    /\ Top(g).pc = "collect"
    /\ Top(g).visited \/ Shape(Top(g).map).during # "collect"
    /\ frames' = [frames EXCEPT ![g].stack[Len(frames[g].stack)] =
            IF Shape(Top(g).map).fail = "key"
            THEN [@ EXCEPT !.pc = "exit", !.err = "key"]
            ELSE [@ EXCEPT !.pc = "emit"]]
    /\ UNCHANGED <<input, out, pool, streams, heap, calls, scratchPool, scratch>>

\* the emission loop once every nested map is encoded: a value encoder that
\* fails returns its error, otherwise the object is closed
SortedEmit(g) ==
    /\ frames[g].stack # <<>>
    /\ Top(g).pc = "emit"
    /\ Top(g).visited \/ Shape(Top(g).map).during # "emit"
    /\ frames' = [frames EXCEPT ![g].stack[Len(frames[g].stack)] =
            IF Shape(Top(g).map).fail = "value" \/ Top(g).err # "none"
            THEN [@ EXCEPT !.pc = "exit", !.err = "value"]
            ELSE [@ EXCEPT !.pc = "exit"]]
    /\ UNCHANGED <<input, out, pool, streams, heap, calls, scratchPool, scratch>>

\* encodeSortedPairs returns: the deferred putReflectWithStringSlice runs
\* and the encode that called it goes on; an error reaches the emission
\* loop that called the value encoder
SortedExit(g) ==
    /\ frames[g].stack # <<>>
    /\ Top(g).pc = "exit"
    /\ LET top == Top(g)
           n == Len(frames[g].stack)
           given == ScratchGive(scratchPool, scratch, top.sv, top.deferred)
           after == given.pool
           below == SubSeq(frames[g].stack, 1, n - 1)
       IN /\ scratchPool' = after
          /\ scratch' = given.caps
          /\ frames' = [frames EXCEPT
                ![g].stack = IF n = 1 THEN <<>>
                             ELSE [below EXCEPT ![n - 1] =
                                    [@ EXCEPT !.visited = TRUE,
                                              !.err = IF \/ top.err = "none"
                                                         \/ below[n - 1].pc = "collect"
                                                      THEN "none" ELSE "value"]],
                ![g].log = Append(@,
                    [map |-> top.map, err |-> top.err,
                     cap |-> scratch[top.deferred],
                     handed |-> after # scratchPool])]
    /\ UNCHANGED <<input, out, pool, streams, heap, calls>>

\* the garbage collector empties the pool of a scratch sequence
ScratchDrop ==
    \E s \in Pooled :
        /\ scratchPool' = [scratchPool EXCEPT ![s] = 0]
        /\ scratch' = [scratch EXCEPT ![s] = 0]
        /\ UNCHANGED <<input, out, pool, streams, heap, calls, frames>>

InitScratch == input = [op |-> "sorted"] /\ out = <<>> /\ PoolIdle

NextScratch ==
    \/ \E g \in Calls : SortedEnter(g)
    \/ \E g \in Calls : SortedCollect(g)
    \/ \E g \in Calls : SortedEmit(g)
    \/ \E g \in Calls : SortedExit(g)
    \/ ScratchDrop

SpecScratch == InitScratch /\ [][NextScratch]_vars

\* the sorted encodes in flight, each with its goroutine and depth
FramesInFlight ==
    {<<g, i>> : g \in Calls, i \in 1..MaxDepth} \cap
    UNION {{<<g, i>> : i \in 1..Len(frames[g].stack)} : g \in Calls}

FrameAt(f) == frames[f[1]].stack[f[2]]

\* the encodes goroutine g has finished
Finished(g) == {frames[g].log[i] : i \in 1..Len(frames[g].log)}

\* C20: every sorted map encode that has returned, with or without an
\* error, handed its scratch sequence back to the pool exactly when the
\* capacity was at most 64; every pooled scratch sequence is in the pool
\* once and has a capacity of at most 64; and no scratch sequence in use by
\* a sorted encode in flight is in the pool or in use by another encode in
\* flight, an outer and a nested map of one goroutine included.
C20_ScratchPooling ==
    /\ \A g \in Calls : \A e \in Finished(g) :
          e.handed <=> e.cap <= ScratchMaxCap
    /\ \A s \in Pooled : scratchPool[s] = 1 /\ scratch[s] \in 1..ScratchMaxCap
    /\ \A f \in FramesInFlight :
          /\ FrameAt(f).sv \notin Pooled
          /\ FrameAt(f).deferred = FrameAt(f).sv
          /\ \A h \in FramesInFlight \ {f} : FrameAt(h).sv # FrameAt(f).sv

\* a nested encode is in flight on a scratch sequence another goroutine
\* handed back, an encode that failed on a key has handed its own back and
\* an encode of a map above 64 entries has discarded its own
C20_Witness ==
    /\ \E g \in Calls :
          /\ Len(frames[g].stack) = 2
          /\ FrameAt(<<g, 2>>).sv[1][1] # g
    /\ \E g \in Calls : \E e \in Finished(g) : e.err = "key" /\ e.handed
    /\ \E g \in Calls : \E e \in Finished(g) : e.cap > ScratchMaxCap /\ ~e.handed

\* ------------------------------------------------------------------------
\* The struct strategies against the general loop
\*
\* The same struct is encoded twice: by appendToBytes, which picks a
\* strategy from numFields and hasOmitEmpty, and by the opening brace
\* followed by encodeFieldsWithOmitEmpty, the loop that tests every field.
\* ------------------------------------------------------------------------
DispatchInputs ==
    {[i EXCEPT !.op = "dispatch"] :
        i \in {x \in StructInputs : ~(x.src.kind = "ptr" /\ x.src.isNil)}}

InitDispatch == input \in DispatchInputs /\ out = <<>> /\ PoolIdle

\* appendToBytes of the structEncoder is called on the input
DispatchEncode ==
    /\ input.op = "dispatch"
    /\ out = <<>>
    /\ out' = <<Encoder_appendToBytes(input.cfg, input.e, input.buffer, input.src)>>
    /\ UNCHANGED <<input, poolVars>>

\* the brace is written and encodeFieldsWithOmitEmpty is called on the input
GeneralEncode ==
    /\ input.op = "dispatch"
    /\ Len(out) = 1
    /\ out' = Append(out,
            encodeFieldsWithOmitEmpty(input.cfg, input.e,
                                      Append(input.buffer, LBRACE), StructSrc))
    /\ UNCHANGED <<input, poolVars>>

NextDispatch == DispatchEncode \/ GeneralEncode

SpecDispatch == InitDispatch /\ [][NextDispatch]_vars

\* the strategy appendToBytes picks for the encoder
Strategy(e) ==
    IF e.numFields = 0 THEN "empty"
    ELSE IF e.numFields = 1 THEN "single"
    ELSE IF e.hasOmitEmpty THEN "omitempty" ELSE "fast"

\* how many times byte c occurs in b
RECURSIVE CountByte(_, _)
CountByte(b, c) ==
    IF b = <<>> THEN 0
    ELSE (IF Head(b) = c THEN 1 ELSE 0) + CountByte(Tail(b), c)

\* the object of every field in declaration order, one comma between
\* neighbours
AllFieldsObject(cfg, e, s) ==
    (<<LBRACE>> \o JoinComma([k \in 1..Len(e.fields) |->
            FieldText(cfg, e.fields[k], s.fields[e.fields[k].index + 1])]))
    \o <<RBRACE>>

BothEncoded == input.op = "dispatch" /\ Len(out) = 2

\* C21: for every struct, the strategy appendToBytes picks (empty, single
\* field, multi-field fast, multi-field omitempty) returns the buffer and
\* the error that the opening brace followed by the general omitempty loop
\* returns; and with no omittable field an encode without error appends all
\* N fields in declaration order with N-1 commas (none for N = 0).
C21_StrategiesAgree ==
    BothEncoded =>
        /\ out[1] = out[2]
        /\ (~input.e.hasOmitEmpty /\ out[1].err = "") =>
              /\ out[1].buffer =
                    input.buffer \o AllFieldsObject(input.cfg, input.e, StructSrc)
              /\ CountByte(out[1].buffer, COMMA) =
                    IF input.e.numFields = 0 THEN 0 ELSE input.e.numFields - 1

\* the fast strategy and the general loop have both encoded a struct of
\* three fields, none omittable and one of them empty
C21_Witness ==
    /\ BothEncoded
    /\ Strategy(input.e) = "fast" /\ input.e.numFields = 3
    /\ \E k \in 1..3 : isEmptyValue(StructSrc.fields[k])
    /\ out[1].err = "" /\ out[2] = out[1]
    /\ CountByte(out[1].buffer, COMMA) = 2

====
